---- MODULE Spec2Model ----
(***************************************************************************)
(* Dark-zone vessel prediction pipeline (Omar1Ramadan/fish).               *)
(*                                                                         *)
(* Components modelled, each with its own specification:                   *)
(*   SpecNorm   - TrajectoryNormalizerV3.transform_y / inverse_transform_y *)
(*   SpecDetect - AISGapDetector.detect_gaps_in_track                      *)
(*   SpecBuild  - TrackPreprocessor.preprocess_gap_event and               *)
(*                SequenceBuilder._pad_or_truncate                         *)
(*   SpecServer - prediction_server: load_models, predict_path             *)
(*   SpecCloud  - ProbabilityCloudGenerator.generate_from_prediction       *)
(*                                                                         *)
(* Numbers.  The program computes in floating point.  The model computes   *)
(* in exact rationals [n |-> numerator, d |-> denominator > 0], reduced    *)
(* after every operation; degrees, hours, knots and nautical miles keep    *)
(* the units of the code.  The irrational functions are modelled on the    *)
(* inputs where they are rational, or by a monotone rational               *)
(* approximation that is stated where it is defined (SqrtR, ExpNegHalf).   *)
(***************************************************************************)
EXTENDS Integers, Sequences, FiniteSets, TLC

(***************************************************************************)
(* Rational arithmetic                                                     *)
(***************************************************************************)
Abs(x) == IF x < 0 THEN -x ELSE x

RECURSIVE Gcd(_, _)
Gcd(a, b) == IF b = 0 THEN a ELSE Gcd(b, a % b)

\* n/d reduced, with a positive denominator (d # 0).
Rat(n, d) ==
    LET g == Gcd(Abs(n), Abs(d))
        s == IF d < 0 THEN -1 ELSE 1
    IN  [n |-> (s * n) \div g, d |-> (s * d) \div g]

I(k) == [n |-> k, d |-> 1]

RAdd(a, b) ==
    LET g == Gcd(a.d, b.d)
    IN  Rat(a.n * (b.d \div g) + b.n * (a.d \div g), (a.d \div g) * b.d)

RNeg(a) == [n |-> -a.n, d |-> a.d]

RSub(a, b) == RAdd(a, RNeg(b))

\* cross-reduced before multiplying, to keep the products small
RMul(a, b) ==
    LET g1 == Gcd(Abs(a.n), b.d)
        g2 == Gcd(Abs(b.n), a.d)
    IN  Rat((a.n \div g1) * (b.n \div g2), (a.d \div g2) * (b.d \div g1))

\* b # 0
RDiv(a, b) == RMul(a, Rat(b.d, b.n))

RLeq(a, b) ==
    LET g == Gcd(a.d, b.d)
    IN  a.n * (b.d \div g) <= b.n * (a.d \div g)

RLt(a, b) == ~RLeq(b, a)

RMax(a, b) == IF RLeq(a, b) THEN b ELSE a

RMin(a, b) == IF RLeq(a, b) THEN a ELSE b

RAbs(a) == [n |-> Abs(a.n), d |-> a.d]

RFloor(a) == a.n \div a.d

\* x - m * floor(x / m), in [0, m)
RMod(a, m) == RSub(a, I(m * RFloor(RDiv(a, I(m)))))

\* the largest k with k * k <= m, searched upwards from k
RECURSIVE ISqrtFrom(_, _)
ISqrtFrom(m, k) == IF (k + 1) * (k + 1) > m THEN k ELSE ISqrtFrom(m, k + 1)

ISqrt(m) == ISqrtFrom(m, 0)

\* np.sqrt, rounded down to a multiple of 1/10 (exact on 0, 1/4, 1, 4, 9, ...):
\* a monotone approximation
SqrtR(a) == Rat(ISqrt((100 * a.n) \div a.d), 10)

\* np.exp(-x / 2) for x >= 0, by the positive and decreasing approximation
\* 1 / (1 + x/2 + x^2/8 + x^3/48), rounded down to a multiple of 1/1000 and
\* never below 1/1000 (np.exp is positive on the grid: x <= 18).  For
\* x = n/d the approximation is 48 d^3 / (48 d^3 + 24 n d^2 + 6 n^2 d + n^3).
ExpNegHalf(x) ==
    LET n == x.n
        d == x.d
        w == (48000 * d * d * d)
                \div (48 * d * d * d + 24 * n * d * d + 6 * n * n * d + n * n * n)
    IN  Rat(IF w < 1 THEN 1 ELSE w, 1000)

\* cos(radians(lat)) on the latitudes where it is rational
Cos(lat) ==
    CASE RAbs(lat) = I(0)   -> I(1)
      [] RAbs(lat) = I(60)  -> Rat(1, 2)
      [] RAbs(lat) = I(90)  -> I(0)
      [] RAbs(lat) = I(120) -> Rat(-1, 2)
      [] RAbs(lat) = I(180) -> I(-1)
      [] RAbs(lat) = I(270) -> I(0)

\* sin(radians(x)) on the same angles
Sin(x) == Cos(RSub(I(90), x))

(***************************************************************************)
(* State                                                                   *)
(***************************************************************************)
VARIABLES
    \* --- normalizer round trip (features/normalizer_v3.py) ---
    nNormalizer,   \* the TrajectoryNormalizerV3 object
    nX,            \* one raw sequence: <<lat, lon>> rows, the last is the reference
    nY,            \* its target position <<lat, lon>>
    nGap,          \* its gap duration (hours)
    nVelNorm,      \* result of transform_y, or NoValue
    nInvArgs,      \* arguments of the inverse_transform_y call, or NoValue
    nRecon,        \* result of inverse_transform_y, or NoValue
    nPc,
    \* --- gap detection (src_ml/data/detect_gaps.py) ---
    dThreshold,        \* AISGapDetector.gap_threshold_hours
    dPositions,        \* the positions argument, in the caller's order
    dMinPointsBefore,  \* the min_points_before argument of the call, or NoValue
    dSorted,           \* the local list after sorted(...), or NoValue
    dGaps,             \* the returned list of gap events, or NoValue
    dPc,
    \* --- sequence building (ml/data/preprocess_tracks.py, ml/features/build_sequences.py) ---
    bGapEvent,     \* the gap_event argument of preprocess_gap_event
    bPositions,    \* its positions argument (<<>> for None or an empty list)
    bResult,       \* the returned record, or NoValue
    bSelf,         \* the TrackPreprocessor the calls are made on
    bCalls,        \* the earlier calls on it: arguments and returned record
    pFeatures,     \* the features argument of _pad_or_truncate: a list of rows
    pResult,       \* its returned rows, or NoValue
    bPc,
    pPc,
    \* --- prediction server (ml/prediction_server.py) ---
    lstm_model,    \* the module global: "loaded" or NoValue (None)
    normalizer,    \* the module global: a normalizer object or NoValue (None)
    baseline_model,  \* the module global: the DeadReckoningBaseline object
    sRequest,      \* the PredictionRequest being answered, or NoValue
    sOutcome,      \* what the learned model does with it: output and failure point
    sLocals,       \* predict_path's locals when it returns, or NoValue
    sResponse,     \* the PredictionResponse returned, or NoValue
    sPc,
    \* --- probability cloud generator (src_ml/prediction/generate_cloud.py) ---
    gArgs,         \* arguments of generate_from_prediction
    gCloud,        \* the returned cloud, or NoValue
    gPc,
    \* --- dead-reckoning baseline called on its own (ml/models/baseline.py) ---
    kModel,        \* the DeadReckoningBaseline object
    kArgs,         \* arguments of the call
    kResult,       \* the returned dict, or what the call raised, or NoValue
    kLocals,       \* predict_from_sequence's locals when it returns, or NoValue
    kPc,
    \* --- the normalizer's load, statement by statement (load_models, load) ---
    lData,         \* what json.load returned from normalizer_v3.json, or NoValue
    lCoordScale,   \* the coord_scale a later transform_X divides by, or NoValue
    lPc,           \* the line about to run, or how the load ended
    \* --- batch fetch (ml/data/fetch_vessel_tracks.py) ---
    fRegions,      \* the regions argument of fetch_multiple_regions
    fUpstream,     \* what happens to the fetch of each region id
    fFilesBefore,  \* the files of output_dir before the call
    fFiles,        \* the files of output_dir: path -> contents
    fAttempted,    \* the region ids fetch_tracks was called with, in order
    fReturned,     \* the returned list of file paths, or NoValue
    fPc,
    \* --- filter_gaps_by_duration (src_ml/data/detect_gaps.py) ---
    qGaps,         \* the gaps argument
    qMinHours,     \* min_hours: [given |-> FALSE] for None, else [given, value]
    qMaxHours,     \* max_hours, likewise
    qFiltered,     \* the returned list, or NoValue
    qPc,
    \* --- transform_X on a training sample (ml/features/normalizer_v3.py) ---
    xNormalizer,   \* the fitted normalizer
    xSample,       \* [X |-> rows <<lat, lon, speed, course>>, gap_hours]
    xOffset,       \* <<dlat, dlon>> by which the second sample is displaced
    xOut,          \* transform_X of the sample, or NoValue
    xShiftedOut,   \* transform_X of the displaced sample, or NoValue
    xPc

serverVars ==
    <<lstm_model, normalizer, baseline_model, sRequest, sOutcome, sLocals, sResponse, sPc>>

cloudVars == <<gArgs, gCloud, gPc>>

baselineVars == <<kModel, kArgs, kResult, kLocals, kPc>>

loadVars == <<lData, lCoordScale, lPc>>

transformVars == <<xNormalizer, xSample, xOffset, xOut, xShiftedOut, xPc>>

filterVars == <<qGaps, qMinHours, qMaxHours, qFiltered, qPc>>

fetchVars == <<fRegions, fUpstream, fFilesBefore, fFiles, fAttempted, fReturned, fPc>>

buildVars ==
    <<bGapEvent, bPositions, bResult, bSelf, bCalls, pFeatures, pResult, bPc, pPc>>

detectVars == <<dThreshold, dPositions, dMinPointsBefore, dSorted, dGaps, dPc>>

normVars == <<nNormalizer, nX, nY, nGap, nVelNorm, nInvArgs, nRecon, nPc>>

vars ==
    <<normVars, detectVars, buildVars, serverVars, cloudVars, baselineVars, loadVars, fetchVars,
      filterVars, transformVars>>

\* what each component leaves alone
notNormVars ==
    <<detectVars, buildVars, serverVars, cloudVars, baselineVars, loadVars, fetchVars,
      filterVars, transformVars>>

notDetectVars ==
    <<normVars, buildVars, serverVars, cloudVars, baselineVars, loadVars, fetchVars,
      filterVars, transformVars>>

notBuildVars ==
    <<normVars, detectVars, serverVars, cloudVars, baselineVars, loadVars, fetchVars,
      filterVars, transformVars>>

notServerVars ==
    <<normVars, detectVars, buildVars, cloudVars, baselineVars, loadVars, fetchVars,
      filterVars, transformVars>>

notCloudVars ==
    <<normVars, detectVars, buildVars, serverVars, baselineVars, loadVars, fetchVars,
      filterVars, transformVars>>

notBaselineVars ==
    <<normVars, detectVars, buildVars, serverVars, cloudVars, loadVars, fetchVars,
      filterVars, transformVars>>

notFetchVars ==
    <<normVars, detectVars, buildVars, serverVars, cloudVars, baselineVars, loadVars,
      filterVars, transformVars>>

notFilterVars ==
    <<normVars, detectVars, buildVars, serverVars, cloudVars, baselineVars, loadVars,
      fetchVars, transformVars>>

notTransformVars ==
    <<normVars, detectVars, buildVars, serverVars, cloudVars, baselineVars, loadVars,
      fetchVars, filterVars>>

\* the load writes the server's global normalizer and leaves the rest alone
notLoadVars ==
    <<normVars, detectVars, buildVars, cloudVars, baselineVars, fetchVars, filterVars,
      transformVars, lstm_model, baseline_model, sRequest, sOutcome, sLocals, sResponse, sPc>>

NoValue == <<>>

(***************************************************************************)
(* TrajectoryNormalizerV3                                                  *)
(***************************************************************************)
\* gap_safe = np.maximum(gap_hours, 0.1)
GapFloor == Rat(1, 10)

\* __init__: the attributes of a freshly constructed normalizer
NewNormalizer ==
    [stats          |-> [lat_std |-> NoValue],
     fitted         |-> FALSE,
     coord_scale    |-> I(1),
     max_speed      |-> I(30),
     velocity_scale |-> Rat(1, 2)]

LastRow(X) == X[Len(X)]

\* transform_y for one sample: ((y - last) / max(gap, 0.1)) / velocity_scale.
\* (The final astype(float32) rounds by a relative 6e-8, far inside the 1e-4
\* degree tolerance of the round trip; the model keeps the exact value.)
transform_y(nz, X, y, gap) ==
    LET gap_safe == RMax(gap, GapFloor)
    IN  [k \in 1..2 |->
            RDiv(RDiv(RSub(y[k], LastRow(X)[k]), gap_safe), nz.velocity_scale)]

\* inverse_transform_y: reference + velocity_norm * velocity_scale * gap_hours
inverse_transform_y(nz, velocity_norm, reference, gap_hours) ==
    [k \in 1..2 |->
        RAdd(reference[k], RMul(RMul(velocity_norm[k], nz.velocity_scale), gap_hours))]

(***************************************************************************)
(* SpecNorm: one sample is transformed, then inverted                      *)
(***************************************************************************)
\* coordinates (degrees) of the sample points: -MaxCoord/2 .. MaxCoord
MaxCoord == 1

NormCoords == {I(c) : c \in 0..MaxCoord} \cup {Rat(-c, 2) : c \in 1..MaxCoord}

NormPoints == {<<la, lo>> : la \in NormCoords, lo \in NormCoords}

\* gap durations (hours): zero, below the 0.1 h floor, on it, and above it
NormGaps == {I(0), Rat(1, 20), Rat(1, 10), Rat(1, 2), I(6)}

\* velocity_scale after fit (degrees/hour); 1/2 is also the constructor default
VelocityScales == {Rat(1, 2), Rat(1, 4)}

NormStart ==
    /\ nNormalizer \in {[NewNormalizer EXCEPT !.velocity_scale = vs, !.fitted = TRUE] :
                            vs \in VelocityScales}
    /\ nX \in {<<<<I(0), I(0)>>, p>> : p \in NormPoints}
    /\ nY \in NormPoints
    /\ nGap \in NormGaps
    /\ nVelNorm = NoValue
    /\ nInvArgs = NoValue
    /\ nRecon = NoValue
    /\ nPc = "input"

NormTransformY ==
    /\ nPc = "input"
    /\ nVelNorm' = transform_y(nNormalizer, nX, nY, nGap)
    /\ nPc' = "transformed"
    /\ UNCHANGED <<nNormalizer, nX, nY, nGap, nInvArgs, nRecon>>
    /\ UNCHANGED notNormVars

NormInverseTransformY(reference, gap_hours) ==
    /\ nPc = "transformed"
    /\ nRecon' = inverse_transform_y(nNormalizer, nVelNorm, reference, gap_hours)
    /\ nInvArgs' = [reference |-> reference, gap_hours |-> gap_hours]
    /\ nPc' = "inverted"
    /\ UNCHANGED <<nNormalizer, nX, nY, nGap, nVelNorm>>
    /\ UNCHANGED notNormVars

NextNorm ==
    \/ NormTransformY
    \/ \E reference \in {LastRow(nX), <<I(0), I(0)>>}, gap_hours \in NormGaps :
          NormInverseTransformY(reference, gap_hours)

NormIdle ==
    /\ nNormalizer = NewNormalizer
    /\ nX = NoValue
    /\ nY = NoValue
    /\ nGap = NoValue
    /\ nVelNorm = NoValue
    /\ nInvArgs = NoValue
    /\ nRecon = NoValue
    /\ nPc = "idle"

(***************************************************************************)
(* Timestamp strings                                                       *)
(*                                                                         *)
(* A timestamp is a string "YYYY-MM-DD?HH:MM:SS" whose separator ? is a    *)
(* space or the letter T.  It is modelled by [h |-> the hour it denotes,   *)
(* counted from the first day, sep |-> 0 for a space, 1 for T]; the empty  *)
(* string is EmptyTimestamp.  Python compares strings character by         *)
(* character: the date first, then the separator (" " < "T"), then the     *)
(* time of day.  sep |-> 2 is the separator "_" ("T" < "_"): a string of   *)
(* the same length and date order that no parser accepts.                  *)
(***************************************************************************)
Ts(h, sep) == [h |-> h, sep |-> sep]

EmptyTimestamp == Ts(-1, 0)

\* values of a position's timestamp that are no timestamp string: None, no
\* 'timestamp' key at all, and a string that does not parse and begins with
\* a letter ("garbage")
NoneTimestamp == Ts(-2, 0)

AbsentTimestamp == Ts(-3, 0)

GarbageTimestamp == Ts(-4, 0)

IsStr(ts) == ts.h >= -1 \/ ts = GarbageTimestamp

DayOf(ts) == ts.h \div 24

\* a letter is greater than any digit, and the empty string is least
StrLess(a, b) ==
    IF a = GarbageTimestamp THEN FALSE
    ELSE IF b = GarbageTimestamp THEN TRUE
    ELSE \/ DayOf(a) < DayOf(b)
         \/ /\ DayOf(a) = DayOf(b)
            /\ \/ a.sep < b.sep
               \/ a.sep = b.sep /\ a.h < b.h

StrLeq(a, b) == ~StrLess(b, a)

\* datetime.isoformat(): the separator is T
isoformat(t) == Ts(t, 1)

(***************************************************************************)
(* AISGapDetector                                                          *)
(***************************************************************************)
\* __init__(gap_threshold_hours=6.0)
GapThresholdDefault == 6

\* detect_gaps_in_track(..., min_points_before=5)
MinPointsBeforeDefault == 5

\* _parse_timestamp: the time (hours) a timestamp string denotes, None (-1)
\* for one that does not parse.  datetime.fromisoformat reads both formats.
ParseTimestampDetect(timestamp) == IF timestamp.h >= 0 THEN timestamp.h ELSE -1

\* line 54: if current_time and next_time
Parsed(t) == t >= 0

\* sorted(positions, key=timestamp): a stable insertion of x into the sorted s
RECURSIVE InsertByTimestamp(_, _)
InsertByTimestamp(s, x) ==
    IF s = <<>> THEN <<x>>
    ELSE IF StrLeq(s[Len(s)].timestamp, x.timestamp) THEN Append(s, x)
    ELSE Append(InsertByTimestamp(SubSeq(s, 1, Len(s) - 1), x), s[Len(s)])

RECURSIVE SortedByTimestamp(_)
SortedByTimestamp(s) ==
    IF s = <<>> THEN <<>>
    ELSE InsertByTimestamp(SortedByTimestamp(SubSeq(s, 1, Len(s) - 1)), s[Len(s)])

\* line 57: gap_duration >= self.gap_threshold_hours
ReachesThresholdStrictly(gap_duration, threshold) == gap_duration > threshold

ReachesThreshold(gap_duration, threshold) == gap_duration >= threshold

\* line 59: i >= min_points_before (i is the 0-based index of the earlier point)
EnoughPointsBeforeStrictly(i, min_points_before) == i > min_points_before

EnoughPointsBefore(i, min_points_before) == i >= min_points_before

\* lines 60-76: the gap event of the pair (positions[i], positions[i+1]), i 0-based
GapEvent(vessel_id, current, next, current_time, next_time, i) ==
    [vessel_id          |-> vessel_id,
     last_seen          |-> current,
     next_seen          |-> next,
     gap_start_time     |-> isoformat(current_time),
     gap_end_time       |-> isoformat(next_time),
     gap_duration_hours |-> next_time - current_time,
     last_position      |-> [lat |-> current.lat, lon |-> current.lon],
     next_position      |-> [lat |-> next.lat, lon |-> next.lon],
     points_before_gap  |-> i + 1]

\* lines 50-77: the loop from 0-based index i on; positions is 1-based here
RECURSIVE DetectLoop(_, _, _, _, _)
DetectLoop(threshold, vessel_id, positions, min_points_before, i) ==
    IF i >= Len(positions) - 1 THEN <<>>
    ELSE
        LET current_time == ParseTimestampDetect(positions[i + 1].timestamp)
            next_time    == ParseTimestampDetect(positions[i + 2].timestamp)
            rest == DetectLoop(threshold, vessel_id, positions, min_points_before, i + 1)
        IN  IF /\ Parsed(current_time)
               /\ Parsed(next_time)
               /\ ReachesThreshold(next_time - current_time, threshold)
               /\ EnoughPointsBefore(i, min_points_before)
            THEN <<GapEvent(vessel_id, positions[i + 1], positions[i + 2],
                            current_time, next_time, i)>> \o rest
            ELSE rest

\* line 47: the keys x.get('timestamp', 0) are strings, None, or 0 for a
\* position without the key.  Sorting two or more keys compares them with <,
\* which raises TypeError between a string and None or 0, and between None
\* and anything (None included); equal keys 0 compare without error.
SortRaises(positions) ==
    LET keys == {positions[j].timestamp : j \in 1..Len(positions)}
    IN  \/ NoneTimestamp \in keys
        \/ AbsentTimestamp \in keys /\ \E k \in keys : IsStr(k)

\* lines 51-52: positions[i]['timestamp'] raises KeyError without the key
SubscriptRaises(positions) ==
    \E j \in 1..Len(positions) : positions[j].timestamp = AbsentTimestamp

\* detect_gaps_in_track: the sorted local list and the returned events, or
\* the exception that leaves the function
detect_gaps_in_track(threshold, vessel_id, positions, min_points_before) ==
    IF Len(positions) < 2
    THEN [sorted |-> positions, gaps |-> <<>>, raised |-> "none"]
    ELSE IF SortRaises(positions)
    THEN [sorted |-> NoValue, gaps |-> NoValue, raised |-> "TypeError"]
    ELSE LET sorted == SortedByTimestamp(positions)
         IN  IF SubscriptRaises(sorted)
             THEN [sorted |-> sorted, gaps |-> NoValue, raised |-> "KeyError"]
             ELSE [sorted |-> sorted,
                   gaps   |-> DetectLoop(threshold, vessel_id, sorted,
                                         min_points_before, 0),
                   raised |-> "none"]

(***************************************************************************)
(* SpecDetect: one track is scanned                                        *)
(***************************************************************************)
\* longest track
MaxTrack == 3

\* report times (hours): intervals of 0, 1, 5, 6, 7 and 12 hours
DetectTimes == {0, 5, 6, 12}

\* the reports of one track carry timestamps of one format
DetectPositions(sep) ==
    {[lat |-> I(0), lon |-> I(lo), timestamp |-> Ts(t, sep)] :
        lo \in 0..1, t \in DetectTimes}

Tracks == UNION {[1..n -> DetectPositions(sep)] : n \in 0..MaxTrack, sep \in 0..1}

VesselId == "vessel-1"

DetectStart ==
    /\ dThreshold \in {GapThresholdDefault, 2 * GapThresholdDefault}
    /\ dPositions \in Tracks
    /\ dMinPointsBefore = NoValue
    /\ dSorted = NoValue
    /\ dGaps = NoValue
    /\ dPc = "input"

DetectGaps(min_points_before) ==
    /\ dPc = "input"
    /\ LET r == detect_gaps_in_track(dThreshold, VesselId, dPositions, min_points_before)
       IN  /\ dSorted' = r.sorted
           /\ dGaps' = r.gaps
           /\ dPc' = IF r.raised = "none" THEN "done" ELSE r.raised
    /\ dMinPointsBefore' = min_points_before
    /\ UNCHANGED <<dThreshold, dPositions>>
    /\ UNCHANGED notDetectVars

NextDetect ==
    \E min_points_before \in {0, 1, MinPointsBeforeDefault} : DetectGaps(min_points_before)

\* --- SpecDetectAny: tracks in which timestamps may be missing, None or
\* unparseable ---
AnyTimestamps ==
    {Ts(0, 1), Ts(12, 1), EmptyTimestamp, NoneTimestamp, AbsentTimestamp,
     GarbageTimestamp}

AnyTracks ==
    UNION {[1..n -> {[lat |-> I(0), lon |-> I(0), timestamp |-> ts] :
                        ts \in AnyTimestamps}] : n \in 0..MaxTrack}

DetectStartAny ==
    /\ dThreshold \in {GapThresholdDefault, 2 * GapThresholdDefault}
    /\ dPositions \in AnyTracks
    /\ dMinPointsBefore = NoValue
    /\ dSorted = NoValue
    /\ dGaps = NoValue
    /\ dPc = "input"

DetectIdle ==
    /\ dThreshold = GapThresholdDefault
    /\ dPositions = NoValue
    /\ dMinPointsBefore = NoValue
    /\ dSorted = NoValue
    /\ dGaps = NoValue
    /\ dPc = "idle"

(***************************************************************************)
(* Geodesy of preprocess_tracks.py, on the points the model uses: two      *)
(* points on one meridian, or two points on the equator less than 180      *)
(* degrees apart.  There the haversine formula gives the arc |delta| and   *)
(* the bearing is a cardinal direction, so both are rational.  One oblique *)
(* pair is modelled besides, (0, 0) and (1, -1/2000): its distance and     *)
(* bearings are the values of the formulas to five decimals.               *)
(***************************************************************************)
\* R * pi / 180 with R = 6371 km: 111.195 km per degree of arc
KmPerDegree == Rat(111195, 1000)

\* the oblique pair: 111.19494 km apart
ObliqueKm == Rat(11119494, 100000)

\* its bearing northwards, (atan2(x, y) in degrees + 360) % 360 = 359.97135...
ObliqueNorthBearing == Rat(35997135, 100000)

\* and southwards, 179.97135...
ObliqueSouthBearing == Rat(17997135, 100000)

haversine_distance(lat1, lon1, lat2, lon2) ==
    IF lon1 = lon2
    THEN RMul(KmPerDegree, RAbs(RSub(lat2, lat1)))
    ELSE IF lat1 = lat2
    THEN RMul(KmPerDegree, RAbs(RSub(lon2, lon1)))
    ELSE ObliqueKm

\* atan2(x, y) in degrees, normalised to [0, 360)
calculate_bearing(lat1, lon1, lat2, lon2) ==
    IF lon1 = lon2
    THEN IF RLt(lat2, lat1) THEN I(180) ELSE I(0)
    ELSE IF lat1 = lat2
    THEN IF RLt(lon1, lon2) THEN I(90) ELSE I(270)
    ELSE IF RLt(lat1, lat2) THEN ObliqueNorthBearing ELSE ObliqueSouthBearing

\* round(x, k): to the nearest multiple of 1/10^k (scale = 10^k)
RoundTo(x, scale) == Rat(RFloor(RAdd(RMul(x, I(scale)), Rat(1, 2))), scale)

\* parse_timestamp: T is replaced by a space and the string parsed; None (-1)
\* for an empty string
parse_timestamp(ts) == IF ts.h >= 0 /\ ts.sep # 2 THEN ts.h ELSE -1

(***************************************************************************)
(* TrackPreprocessor.preprocess_gap_event                                  *)
(***************************************************************************)
\* s[-n:] for n >= 1
LastN(s, n) == IF Len(s) <= n THEN s ELSE SubSeq(s, Len(s) - n + 1, Len(s))

\* lines 99-102: pos_time and pos_time < gap_start_time, compared as strings
BeforeGapAlways(pos_time, gap_start_time) == pos_time # EmptyTimestamp

BeforeGap(pos_time, gap_start_time) ==
    pos_time # EmptyTimestamp /\ StrLess(pos_time, gap_start_time)

\* lines 95-113
RawPositions(sequence_length, gap_event, positions) ==
    LET before == IF Len(positions) > 1
                  THEN LastN(SelectSeq(positions,
                                 LAMBDA pos : BeforeGap(pos.timestamp,
                                                        gap_event.gap_start_time)),
                             sequence_length + 1)
                  ELSE <<>>
    IN  IF Len(before) < 2
        THEN <<[lat       |-> gap_event.last_seen.lat,
                lon       |-> gap_event.last_seen.lon,
                timestamp |-> gap_event.last_seen.timestamp]>>
        ELSE before

\* lines 117-156: the record derived for raw_positions[i] (1-based here)
DerivedPoint(raw_positions, i) ==
    LET pos == raw_positions[i]
    IN  IF i = 1
        THEN [lat |-> pos.lat, lon |-> pos.lon, speed |-> I(0), course |-> I(0),
              timestamp |-> pos.timestamp]
        ELSE
            LET prev_pos    == raw_positions[i - 1]
                distance_km == haversine_distance(prev_pos.lat, prev_pos.lon,
                                                  pos.lat, pos.lon)
                t1 == parse_timestamp(prev_pos.timestamp)
                t2 == parse_timestamp(pos.timestamp)
                speed == IF t1 >= 0 /\ t2 >= 0 /\ t2 > t1
                         THEN RDiv(RDiv(distance_km, I(t2 - t1)), Rat(1852, 1000))
                         ELSE I(0)
                course == IF RLt(Rat(1, 10), distance_km)
                          THEN calculate_bearing(prev_pos.lat, prev_pos.lon,
                                                 pos.lat, pos.lon)
                          ELSE I(0)
            IN  [lat |-> pos.lat, lon |-> pos.lon,
                 speed |-> RoundTo(speed, 100), course |-> RoundTo(course, 10),
                 timestamp |-> pos.timestamp]

\* lines 163-167: pad at the beginning with the first point, zero speed and course
PadFrontNever(sequence, sequence_length) == sequence

\* padding appended after the last record
RECURSIVE PadBack(_, _)
PadBack(sequence, sequence_length) ==
    IF Len(sequence) >= sequence_length THEN sequence
    ELSE PadBack(Append(sequence, [sequence[1] EXCEPT !.speed = I(0), !.course = I(0)]),
                 sequence_length)

RECURSIVE PadFront(_, _)
PadFront(sequence, sequence_length) ==
    IF Len(sequence) >= sequence_length THEN sequence
    ELSE PadFront(<<[sequence[1] EXCEPT !.speed = I(0), !.course = I(0)]>> \o sequence,
                  sequence_length)

RECURSIVE SumSpeed(_)
SumSpeed(sequence) ==
    IF sequence = <<>> THEN I(0)
    ELSE RAdd(sequence[1].speed, SumSpeed(Tail(sequence)))

\* TrackPreprocessor.__init__
NewTrackPreprocessor(sequence_length) == [sequence_length |-> sequence_length]

\* a call that leaves the builder one record shorter
SelfAfterShorteningSequence(self, gap_event, positions) ==
    [self EXCEPT !.sequence_length = self.sequence_length - 1]

\* the builder after preprocess_gap_event: the method assigns no attribute
\* of self, and only reads its arguments
SelfAfter(self, gap_event, positions) == self

preprocess_gap_event(sequence_length, gap_event, positions) ==
    LET raw_positions == RawPositions(sequence_length, gap_event, positions)
        derived   == [i \in 1..Len(raw_positions) |-> DerivedPoint(raw_positions, i)]
        truncated == IF Len(derived) > sequence_length
                     THEN LastN(derived, sequence_length)
                     ELSE derived
        sequence  == PadFront(truncated, sequence_length)
    IN  [vessel_id |-> gap_event.vessel_id,
         sequence  |-> sequence,
         gap_info  |-> [last_position      |-> gap_event.last_position,
                        next_position      |-> gap_event.next_position,
                        gap_duration_hours |-> gap_event.gap_duration_hours,
                        gap_start_time     |-> gap_event.gap_start_time,
                        gap_end_time       |-> gap_event.gap_end_time],
         metadata  |-> [sequence_length  |-> Len(sequence),
                        has_target       |-> TRUE,
                        unique_positions |->
                            Cardinality({<<sequence[i].lat, sequence[i].lon>> :
                                            i \in 1..Len(sequence)}),
                        avg_speed_knots  |->
                            RoundTo(RDiv(SumSpeed(sequence), I(Len(sequence))), 100)]]

(***************************************************************************)
(* SequenceBuilder._pad_or_truncate                                        *)
(***************************************************************************)
\* np.zeros((1, features.shape[1])): the row used when features is empty
ZeroRow == <<0, 0>>

pad_or_truncate(sequence_length, features) ==
    LET current_length == Len(features)
    IN  IF current_length = sequence_length THEN features
        ELSE IF current_length < sequence_length
        THEN LET last_row == IF current_length > 0 THEN features[current_length]
                             ELSE ZeroRow
                 padding  == [i \in 1..(sequence_length - current_length) |-> last_row]
             IN  padding \o features
        ELSE LastN(features, sequence_length)

(***************************************************************************)
(* SpecBuild: one gap event and one history are preprocessed, and one      *)
(* feature array is padded or truncated                                    *)
(***************************************************************************)
\* the sequence_length both classes are constructed with (20 by default)
SequenceLength == 3

\* the longest history and the longest feature array
MaxHistory == SequenceLength + 2

\* report times (hours); 30 is on the second day
BuildTimes == {0, 6, 30}

BuildPositions(sep) ==
    {[lat |-> I(0), lon |-> I(lo), timestamp |-> Ts(t, sep)] :
        lo \in 0..1, t \in BuildTimes}

\* histories are sorted by time, in one timestamp format
Histories ==
    {s \in UNION {[1..n -> BuildPositions(sep)] : n \in 0..MaxHistory, sep \in 0..1} :
        \A j \in 1..(Len(s) - 1) : s[j].timestamp.h <= s[j + 1].timestamp.h}

\* gap events as detect_gaps_in_track writes them
BuildGapEvents ==
    {GapEvent(VesselId,
              [lat |-> I(0), lon |-> I(lo), timestamp |-> Ts(t, sep)],
              [lat |-> I(0), lon |-> I(1), timestamp |-> Ts(t + 12, sep)],
              t, t + 12, 5) :
        lo \in 0..1, t \in {6, 30}, sep \in 0..1}

FeatureRows == {<<1, 2>>, <<3, 4>>}

FeatureArrays == UNION {[1..n -> FeatureRows] : n \in 0..MaxHistory}

\* the most calls made on one builder
MaxCalls == 3

\* either call is made on its own
BuildStart ==
    /\ bResult = NoValue
    /\ bSelf = NewTrackPreprocessor(SequenceLength)
    /\ bCalls = <<>>
    /\ pResult = NoValue
    /\ \/ /\ bGapEvent \in BuildGapEvents
          /\ bPositions \in Histories
          /\ bPc = "input"
          /\ pFeatures = NoValue
          /\ pPc = "idle"
       \/ /\ bGapEvent = NoValue
          /\ bPositions = NoValue
          /\ bPc = "idle"
          /\ pFeatures \in FeatureArrays
          /\ pPc = "input"

PreprocessGapEvent ==
    /\ bPc = "input"
    /\ bResult' = preprocess_gap_event(bSelf.sequence_length, bGapEvent, bPositions)
    /\ bSelf' = SelfAfter(bSelf, bGapEvent, bPositions)
    /\ bPc' = "done"
    /\ UNCHANGED <<bGapEvent, bPositions, bCalls, pFeatures, pResult, pPc>>
    /\ UNCHANGED notBuildVars

PadOrTruncate ==
    /\ pPc = "input"
    /\ pResult' = pad_or_truncate(SequenceLength, pFeatures)
    /\ pPc' = "done"
    /\ UNCHANGED <<bGapEvent, bPositions, bResult, bSelf, bCalls, bPc, pFeatures>>
    /\ UNCHANGED notBuildVars

NextBuild ==
    \/ PreprocessGapEvent
    \/ PadOrTruncate

\* the arguments of repeated calls: a gap on the first and one on the second
\* day; no history, a history too short for either gap, and one that is
\* padded for the first gap and truncated for the second
RepeatPoint(lo, t) == [lat |-> I(0), lon |-> I(lo), timestamp |-> isoformat(t)]

RepeatGapEvents ==
    {GapEvent(VesselId, RepeatPoint(0, t), RepeatPoint(1, t + 12), t, t + 12, 5) :
        t \in {6, 30}}

RepeatHistories ==
    {<<>>,
     <<RepeatPoint(0, 0), RepeatPoint(1, 6)>>,
     <<RepeatPoint(0, 0), RepeatPoint(1, 0), RepeatPoint(0, 3), RepeatPoint(1, 6),
       RepeatPoint(0, 30)>>}

BuildRepeatedlyStart ==
    /\ bGapEvent \in RepeatGapEvents
    /\ bPositions \in RepeatHistories
    /\ bResult = NoValue
    /\ bSelf = NewTrackPreprocessor(SequenceLength)
    /\ bCalls = <<>>
    /\ bPc = "input"
    /\ pFeatures = NoValue
    /\ pResult = NoValue
    /\ pPc = "idle"

\* the caller makes another call on the same builder
CallAgain ==
    /\ bPc = "done"
    /\ Len(bCalls) < MaxCalls - 1
    /\ bCalls' = Append(bCalls, [gap_event |-> bGapEvent, positions |-> bPositions,
                                 result |-> bResult])
    /\ bGapEvent' \in RepeatGapEvents
    /\ bPositions' \in RepeatHistories
    /\ bResult' = NoValue
    /\ bPc' = "input"
    /\ UNCHANGED <<bSelf, pFeatures, pResult, pPc>>
    /\ UNCHANGED notBuildVars

(***************************************************************************)
(* SpecBuildKinematics: histories of the day before the gap, in any order, *)
(* over three places (two of them 56 m apart, the third a degree north of  *)
(* one and obliquely north of the other) and three timestamps, one of them *)
(* unparseable                                                             *)
(***************************************************************************)
\* the longest of these histories
MaxKinematicHistory == 3

KinematicPlaces ==
    {[lat |-> I(0), lon |-> I(0)],
     [lat |-> I(0), lon |-> Rat(-1, 2000)],
     [lat |-> I(1), lon |-> Rat(-1, 2000)]}

KinematicTimestamps == {Ts(0, 1), Ts(6, 1), Ts(3, 2)}

KinematicPositions ==
    {[lat |-> place.lat, lon |-> place.lon, timestamp |-> ts] :
        place \in KinematicPlaces, ts \in KinematicTimestamps}

BuildKinematicsStart ==
    /\ bGapEvent = GapEvent(VesselId,
                            [lat |-> I(0), lon |-> I(0), timestamp |-> Ts(30, 1)],
                            [lat |-> I(0), lon |-> I(1), timestamp |-> Ts(42, 1)],
                            30, 42, 5)
    /\ bPositions \in UNION {[1..n -> KinematicPositions] : n \in 2..MaxKinematicHistory}
    /\ bResult = NoValue
    /\ bSelf = NewTrackPreprocessor(SequenceLength)
    /\ bCalls = <<>>
    /\ bPc = "input"
    /\ pFeatures = NoValue
    /\ pResult = NoValue
    /\ pPc = "idle"

NextBuildKinematics ==
    \/ PreprocessGapEvent

NextBuildRepeatedly ==
    \/ PreprocessGapEvent
    \/ CallAgain

BuildIdle ==
    /\ bGapEvent = NoValue
    /\ bPositions = NoValue
    /\ bResult = NoValue
    /\ bSelf = NoValue
    /\ bCalls = NoValue
    /\ bPc = "idle"
    /\ pFeatures = NoValue
    /\ pResult = NoValue
    /\ pPc = "idle"

(***************************************************************************)
(* DeadReckoningBaseline (ml/models/baseline.py)                           *)
(*                                                                         *)
(* The spherical direct problem is modelled where its result is rational:  *)
(* travel along a meridian (course 0 or 180) and travel along the equator  *)
(* (latitude 0, course 90 or 270).  Angles are in degrees.                 *)
(***************************************************************************)
\* __init__: uncertainty_factor
UncertaintyFactorDefault == Rat(1, 10)

\* degrees(distance_nm / R) for R = 3440.065 nm: 60.04 nm to the degree of
\* arc, taken as 60 (one nautical mile to the arc minute)
NmPerDegree == 60

\* a base uncertainty of nothing
BaseUncertaintyNone == I(0)

\* base_uncertainty (nm)
BaseUncertaintyNm == I(5)

\* degrees(asin(sin(radians(x))))
AsinSin(x) ==
    LET r == RMod(x, 360)
    IN  IF RLeq(r, I(90)) THEN r
        ELSE IF RLeq(r, I(270)) THEN RSub(I(180), r)
        ELSE RSub(r, I(360))

\* cos(radians(x)) < 0
CosNegative(x) == LET r == RMod(x, 360) IN RLt(I(90), r) /\ RLt(r, I(270))

\* sin(radians(x)) < 0
SinNegative(x) == RLt(I(180), RMod(x, 360))

\* degrees(atan2(sin(radians(x)), cos(radians(x)))): x brought into (-180, 180]
Atan2SinCos(x) ==
    LET r == RMod(x, 360) IN IF RLeq(r, I(180)) THEN r ELSE RSub(r, I(360))

\* predict
DeadReckoningPredict(uncertainty_factor, last_position, last_speed, last_course, time_gap_hours) ==
    LET lat == last_position[1]
        lon == last_position[2]
        distance_nm == RMul(last_speed, time_gap_hours)
        distance == RDiv(distance_nm, I(NmPerDegree))
        \* course 0 or 180: the point moves along its meridian circle
        along == IF last_course = I(0) THEN RAdd(lat, distance) ELSE RSub(lat, distance)
        \* atan2(+-0 or +-tiny, cos(distance) - sin(lat) sin(new_lat)), whose
        \* second argument is cos(lat) cos(along): 0, or half a turn with the
        \* sign of sin(distance)
        turn == IF CosNegative(along)
                THEN (IF SinNegative(distance) THEN I(-180) ELSE I(180))
                ELSE I(0)
        new_position ==
            IF last_course \in {I(0), I(180)}
            THEN <<AsinSin(along), RAdd(lon, turn)>>
            \* latitude 0, course 90 or 270: along the equator
            ELSE <<I(0),
                   RAdd(lon, Atan2SinCos(IF last_course = I(90)
                                         THEN distance ELSE RNeg(distance)))>>
        time_uncertainty == RMul(RMul(uncertainty_factor, time_gap_hours), last_speed)
        total_uncertainty_nm == RAdd(BaseUncertaintyNm, time_uncertainty)
        uncertainty_lat == RDiv(total_uncertainty_nm, I(60))
        uncertainty_lon == RDiv(total_uncertainty_nm, RMul(I(60), Cos(lat)))
    IN  [predicted_position   |-> new_position,
         uncertainty_nm       |-> total_uncertainty_nm,
         uncertainty_degrees  |-> <<uncertainty_lat, uncertainty_lon>>,
         distance_traveled_nm |-> distance_nm,
         method               |-> "dead_reckoning"]

\* DeadReckoningBaseline(uncertainty_factor)
NewBaseline(uncertainty_factor) == [uncertainty_factor |-> uncertainty_factor]

\* --- SpecBaseline: one call of the baseline model on its own ---
UncertaintyFactors == {UncertaintyFactorDefault, Rat(1, 2)}

\* positions and courses where the model's geodesy is exact: the equator with
\* any cardinal course, 60 N with a meridian course
BaselineStarts ==
    {<<(<<I(0), I(0)>>), c>> : c \in {I(0), I(90), I(180), I(270)}}
    \cup {<<(<<I(60), I(0)>>), c>> : c \in {I(0), I(180)}}

BaselineSpeeds == {I(0), I(10), I(20)}

BaselineGaps == {I(0), Rat(1, 20), I(6), I(120)}

PredictCalls ==
    {[last_position |-> st[1], last_speed |-> speed, last_course |-> st[2],
      time_gap_hours |-> gap] :
        st \in BaselineStarts, speed \in BaselineSpeeds, gap \in BaselineGaps}

\* _haversine_distance (nautical miles) between two points of one meridian
\* or of the equator, less than half a turn apart
BaselineHaversine(lat1, lon1, lat2, lon2) ==
    IF lon1 = lon2
    THEN RMul(I(NmPerDegree), RAbs(RSub(lat2, lat1)))
    ELSE RMul(I(NmPerDegree), RAbs(RSub(lon2, lon1)))

\* _calculate_bearing between such points; atan2(0, 0) = 0 for equal points
BaselineBearing(lat1, lon1, lat2, lon2) ==
    IF lon1 = lon2
    THEN IF RLt(lat2, lat1) THEN I(180) ELSE I(0)
    ELSE IF RLt(lon1, lon2) THEN I(90) ELSE I(270)

\* an estimate made whatever speed the last point carries
PredictFromSequenceAlwaysEstimating(uncertainty_factor, sequence, time_gap_hours) ==
    LET last_point == sequence[Len(sequence)]
        lat == last_point[1]
        lon == last_point[2]
        speed0 == IF Len(last_point) > 2 THEN last_point[3] ELSE I(0)
        course0 == IF Len(last_point) > 3 THEN last_point[4] ELSE I(0)
        estimate == Len(sequence) > 1
        prev_point == sequence[Len(sequence) - 1]
        distance == BaselineHaversine(prev_point[1], prev_point[2], lat, lon)
        time_diff == time_gap_hours
        divide == estimate /\ RLt(I(0), time_diff)
        speed == IF divide THEN RDiv(distance, time_diff) ELSE speed0
        course == IF divide
                  THEN BaselineBearing(prev_point[1], prev_point[2], lat, lon)
                  ELSE course0
    IN  [locals |-> [estimate  |-> estimate,
                     distance  |-> IF estimate THEN distance ELSE NoValue,
                     time_diff |-> IF divide THEN time_diff ELSE NoValue,
                     speed     |-> speed,
                     course    |-> course],
         result |-> DeadReckoningPredict(uncertainty_factor, <<lat, lon>>, speed,
                                         course, time_gap_hours)]

\* predict_from_sequence: rows are <<lat, lon>> or <<lat, lon, speed, course>>.
\* locals.time_diff is the divisor of the speed derivation, NoValue when no
\* division is made.
predict_from_sequence(uncertainty_factor, sequence, time_gap_hours) ==
    LET last_point == sequence[Len(sequence)]
        lat == last_point[1]
        lon == last_point[2]
        speed0 == IF Len(last_point) > 2 THEN last_point[3] ELSE I(0)
        course0 == IF Len(last_point) > 3 THEN last_point[4] ELSE I(0)
        estimate == speed0 = I(0) /\ Len(sequence) > 1
        prev_point == sequence[Len(sequence) - 1]
        distance == BaselineHaversine(prev_point[1], prev_point[2], lat, lon)
        time_diff == time_gap_hours
        divide == estimate /\ RLt(I(0), time_diff)
        speed == IF divide THEN RDiv(distance, time_diff) ELSE speed0
        course == IF divide
                  THEN BaselineBearing(prev_point[1], prev_point[2], lat, lon)
                  ELSE course0
    IN  [locals |-> [estimate  |-> estimate,
                     distance  |-> IF estimate THEN distance ELSE NoValue,
                     time_diff |-> IF divide THEN time_diff ELSE NoValue,
                     speed     |-> speed,
                     course    |-> course],
         result |-> DeadReckoningPredict(uncertainty_factor, <<lat, lon>>, speed,
                                         course, time_gap_hours)]

\* sequences ending at the origin: one or two rows, the last with or without
\* a speed of its own, the one before it a degree away or at the same place
SequenceRows == {<<I(0), I(0)>>, <<I(0), I(0), I(0), I(0)>>, <<I(0), I(0), I(10), I(90)>>}

PreviousRows ==
    {<<I(0), I(-1), I(10), I(90)>>, <<I(0), I(1), I(10), I(270)>>,
     <<I(-1), I(0), I(10), I(0)>>, <<I(0), I(0), I(0), I(0)>>}

FromSequenceGaps == {I(-1), I(0), Rat(1, 20), Rat(1, 10), I(6)}

FromSequenceCalls ==
    {[sequence |-> sequence, time_gap_hours |-> gap] :
        sequence \in {<<last>> : last \in SequenceRows}
                     \cup {<<prev, last>> : prev \in PreviousRows, last \in SequenceRows},
        gap \in FromSequenceGaps}

BaselineStart ==
    /\ kModel \in {NewBaseline(f) : f \in UncertaintyFactors}
    /\ \/ kArgs \in PredictCalls /\ kPc = "predict"
       \/ kArgs \in FromSequenceCalls /\ kPc = "from_sequence"
    /\ kResult = NoValue
    /\ kLocals = NoValue

\* baseline.predict(last_position, last_speed, last_course, time_gap_hours)
Predict ==
    /\ kPc = "predict"
    /\ kResult' = DeadReckoningPredict(kModel.uncertainty_factor, kArgs.last_position,
                                       kArgs.last_speed, kArgs.last_course,
                                       kArgs.time_gap_hours)
    /\ kPc' = "done"
    /\ UNCHANGED <<kModel, kArgs, kLocals>>
    /\ UNCHANGED notBaselineVars

\* baseline.predict_from_sequence(sequence, time_gap_hours)
PredictFromSequence ==
    /\ kPc = "from_sequence"
    /\ \E returned \in {predict_from_sequence(kModel.uncertainty_factor, kArgs.sequence,
                                                kArgs.time_gap_hours)} :
          /\ kResult' = returned.result
          /\ kLocals' = returned.locals
    /\ kPc' = "done_from_sequence"
    /\ UNCHANGED <<kModel, kArgs>>
    /\ UNCHANGED notBaselineVars

NextBaseline ==
    \/ Predict
    \/ PredictFromSequence

BaselineIdle ==
    /\ kModel = NewBaseline(UncertaintyFactorDefault)
    /\ kArgs = NoValue
    /\ kResult = NoValue
    /\ kLocals = NoValue
    /\ kPc = "idle"

(***************************************************************************)
(* Prediction server (ml/prediction_server.py)                             *)
(***************************************************************************)
\* SEQUENCE_LENGTH: the length of the model's input, here the bound
SEQUENCE_LENGTH == SequenceLength

\* grid_size of generate_probability_cloud
ServerGridSize == 3

\* the loaded Keras model object
LstmV3 == [input_shape |-> <<SEQUENCE_LENGTH, 5>>, output_shape |-> <<2>>]

\* TrajectoryNormalizerV3.load: the attributes read from the file's data
NormalizerLoad(nz, data) ==
    [nz EXCEPT !.stats = data.stats,
               !.coord_scale = data.coord_scale,
               !.max_speed = data.max_speed,
               !.velocity_scale = data.velocity_scale,
               !.fitted = data.fitted]

\* x or default: the default replaces None and 0
Or(x, default) == IF x = NoValue \/ x = I(0) THEN default ELSE x

\* the sum of the probabilities of features[lo..hi], added up by halves (the
\* sum is exact, so the order of the additions does not show)
RECURSIVE SumRange(_, _, _)
SumRange(features, lo, hi) ==
    IF lo > hi THEN I(0)
    ELSE IF lo = hi THEN features[lo].probability
    ELSE LET mid == (lo + hi) \div 2
         IN  RAdd(SumRange(features, lo, mid), SumRange(features, mid + 1, hi))

\* sum(f["properties"]["probability"] for f in features[:k])
SumProbability(features, k) == SumRange(features, 1, k)

\* a normalisation by the number of cells instead of the sum
NormalizeByCount(features, total) ==
    [k \in 1..Len(features) |->
        [features[k] EXCEPT !.probability = RDiv(@, I(Len(features)))]]

\* every probability divided by the total: f["properties"]["probability"] /= total
\* in the server, probability / probability.sum() in the generator
Normalize(features, total) ==
    [k \in 1..Len(features) |->
        [features[k] EXCEPT !.probability = RDiv(@, total)]]

\* generate_probability_cloud: the features in the order they are appended
generate_probability_cloud(grid_size, lat, lon, unc_lat, unc_lon) ==
    LET Point(k) ==
            LET i == (k - 1) \div grid_size
                j == (k - 1) % grid_size
                pt_lat == RAdd(RSub(lat, RMul(I(3), unc_lat)),
                               RDiv(RMul(RMul(I(6), unc_lat), I(i)), I(grid_size - 1)))
                pt_lon == RAdd(RSub(lon, RMul(I(3), unc_lon)),
                               RDiv(RMul(RMul(I(6), unc_lon), I(j)), I(grid_size - 1)))
                d_lat == IF RLt(I(0), unc_lat)
                         THEN RDiv(RSub(pt_lat, lat), unc_lat) ELSE I(0)
                d_lon == IF RLt(I(0), unc_lon)
                         THEN RDiv(RSub(pt_lon, lon), unc_lon) ELSE I(0)
            IN  [coordinates |-> <<pt_lon, pt_lat>>,
                 probability |-> ExpNegHalf(RAdd(RMul(d_lat, d_lat), RMul(d_lon, d_lon)))]
    IN  CHOOSE cloud \in
            {Normalize(features, SumProbability(features, Len(features))) :
                features \in {[k \in 1..(grid_size * grid_size) |-> Point(k)]}} : TRUE

\* a raw sequence taken from the oldest points of the request's sequence
RawSequenceFromOldest(last_pos, sequence) ==
    IF sequence # NoValue /\ Len(sequence) >= SEQUENCE_LENGTH
    THEN [k \in 1..SEQUENCE_LENGTH |->
            LET p == sequence[k]
            IN  <<p.lat, p.lon, Or(p.speed, I(0)), Or(p.course, I(0))>>]
    ELSE [k \in 1..SEQUENCE_LENGTH |->
            <<last_pos.lat, last_pos.lon,
              Or(last_pos.speed, I(5)), Or(last_pos.course, I(0))>>]

\* prepare_input_v3, lines 141-144: the raw rows <<lat, lon, speed, course>>
RawSequence(last_pos, sequence) ==
    IF sequence # NoValue /\ Len(sequence) >= SEQUENCE_LENGTH
    THEN [k \in 1..SEQUENCE_LENGTH |->
            LET p == sequence[Len(sequence) - SEQUENCE_LENGTH + k]
            IN  <<p.lat, p.lon, Or(p.speed, I(0)), Or(p.course, I(0))>>]
    ELSE [k \in 1..SEQUENCE_LENGTH |->
            <<last_pos.lat, last_pos.lon,
              Or(last_pos.speed, I(5)), Or(last_pos.course, I(0))>>]

\* prepare_input_v3: rows <<lat_rel, lon_rel, speed_norm, course_sin, course_cos>>
prepare_input_v3(nz, last_pos, sequence) ==
    LET raw == RawSequence(last_pos, sequence)
        last == raw[SEQUENCE_LENGTH]
        coord_scale ==
            RMax(IF nz.stats.lat_std = NoValue THEN I(1) ELSE nz.stats.lat_std, I(1))
    IN  [k \in 1..SEQUENCE_LENGTH |->
            <<RDiv(RSub(raw[k][1], last[1]), coord_scale),
              RDiv(RSub(raw[k][2], last[2]), coord_scale),
              RDiv(raw[k][3], nz.max_speed),
              Sin(raw[k][4]),
              Cos(raw[k][4])>>]

\* a clamp whose two bounds changed places
ClampAggressionSwapped(aggression_factor) ==
    RMin(Rat(1, 4), RMax(I(10), aggression_factor))

\* aggression = max(0.25, min(10.0, request.aggression_factor))
ClampAggression(aggression_factor) ==
    RMax(Rat(1, 4), RMin(I(10), aggression_factor))

\* a path choice that does not look at the model
UseLstmWithoutModel(model_type, model, nz) ==
    model_type = "lstm" /\ nz # NoValue

\* use_lstm = model_type == "lstm" and lstm_model is not None and normalizer is not None
UseLstm(model_type, model, nz) ==
    model_type = "lstm" /\ model # NoValue /\ nz # NoValue

\* the locals of predict_path that either branch assigns, before any is bound
Unbound ==
    [X |-> NoValue, velocity_norm |-> NoValue,
     pred_lat |-> NoValue, pred_lon |-> NoValue,
     unc_lat |-> NoValue, unc_lon |-> NoValue,
     method |-> NoValue, confidence |-> NoValue]

\* a displacement the aggression factor does not stretch
DisplacementWithoutAggression(velocity, gap_hours, aggression) ==
    RMul(velocity, gap_hours)

\* displacement = velocity * gap_hours, then displacement * aggression
Displacement(velocity, gap_hours, aggression) ==
    RMul(RMul(velocity, gap_hours), aggression)

\* the try block.  outcome.velocity_norm is what lstm_model.predict returns
\* for this input and outcome.fail the statement that raises, if any; the
\* result is the locals bound when the block is left.
LearnedBranch(nz, request, aggression, outcome) ==
    LET ref_lat == request.last_position.lat
        ref_lon == request.last_position.lon
        gap_hours == request.gap_duration_hours
        afterPrepare ==
            [Unbound EXCEPT
                !.X = prepare_input_v3(nz, request.last_position, request.sequence)]
        afterPredict == [afterPrepare EXCEPT !.velocity_norm = outcome.velocity_norm]
        velocity == [k \in 1..2 |-> RMul(outcome.velocity_norm[k], nz.velocity_scale)]
        displacement == [k \in 1..2 |-> Displacement(velocity[k], gap_hours, aggression)]
        afterPosition ==
            [afterPredict EXCEPT !.pred_lat = RAdd(ref_lat, displacement[1]),
                                 !.pred_lon = RAdd(ref_lon, displacement[2])]
        base_unc == Rat(1, 20)
        time_factor == SqrtR(gap_hours)
        aggression_unc_factor == SqrtR(aggression)
        unc == RMul(RMul(base_unc, time_factor), aggression_unc_factor)
        afterAll ==
            [afterPosition EXCEPT !.unc_lat = unc,
                                  !.unc_lon = RDiv(unc, Cos(ref_lat)),
                                  !.method = "lstm_v3_velocity",
                                  !.confidence = Rat(85, 100)]
    IN  CASE outcome.fail = "prepare"     -> Unbound
          [] outcome.fail = "predict"     -> afterPrepare
          [] outcome.fail = "denormalize" -> afterPredict
          [] outcome.fail = "uncertainty" -> afterPosition
          [] outcome.fail = "none"        -> afterAll

\* a gap that shrinks as the aggression grows
EffectiveGapDivided(gap_hours, aggression) == RDiv(gap_hours, aggression)

\* effective_gap_hours = gap_hours * aggression
EffectiveGap(gap_hours, aggression) == RMul(gap_hours, aggression)

\* baseline_model.predict(...) for the request
BaselineResult(request, aggression) ==
    LET effective_gap_hours == EffectiveGap(request.gap_duration_hours, aggression)
    IN  DeadReckoningPredict(UncertaintyFactorDefault,
                             <<request.last_position.lat, request.last_position.lon>>,
                             Or(request.last_position.speed, I(5)),
                             Or(request.last_position.course, I(0)),
                             effective_gap_hours)

\* a fallback that keeps a position the try block had already bound
FallbackBranchKeepingPosition(locals, request, aggression) ==
    LET result == BaselineResult(request, aggression)
        aggression_unc_factor == SqrtR(aggression)
        bound == locals.pred_lat # NoValue
    IN  [locals EXCEPT
            !.pred_lat = IF bound THEN @ ELSE result.predicted_position[1],
            !.pred_lon = IF bound THEN @ ELSE result.predicted_position[2],
            !.unc_lat = RMul(result.uncertainty_degrees[1], aggression_unc_factor),
            !.unc_lon = RMul(result.uncertainty_degrees[2], aggression_unc_factor),
            !.method = "dead_reckoning",
            !.confidence = RMax(Rat(1, 5), RDiv(Rat(1, 2), aggression))]

\* the block under "if not use_lstm"
FallbackBranch(locals, request, aggression) ==
    LET result == BaselineResult(request, aggression)
        aggression_unc_factor == SqrtR(aggression)
    IN  [locals EXCEPT
            !.pred_lat = result.predicted_position[1],
            !.pred_lon = result.predicted_position[2],
            !.unc_lat = RMul(result.uncertainty_degrees[1], aggression_unc_factor),
            !.unc_lon = RMul(result.uncertainty_degrees[2], aggression_unc_factor),
            !.method = "dead_reckoning",
            !.confidence = RMax(Rat(1, 5), RDiv(Rat(1, 2), aggression))]

\* predict_path up to the cloud: the clamp, the choice of the path, the try
\* block and the fallback
Predicted(model, nz, request, outcome) ==
    LET aggression == ClampAggression(request.aggression_factor)
        use_lstm == UseLstm(request.model_type, model, nz)
        tried == IF use_lstm THEN LearnedBranch(nz, request, aggression, outcome)
                 ELSE Unbound
        \* the except clause sets use_lstm = False
        use_lstm_after == use_lstm /\ outcome.fail = "none"
    IN  [aggression |-> aggression,
         tried_lstm |-> use_lstm,
         use_lstm   |-> use_lstm_after,
         final      |-> IF ~use_lstm_after THEN FallbackBranch(tried, request, aggression)
                        ELSE tried]

\* the rest of predict_path: the cloud and the response
Return(request, p) ==
    LET final == p.final
        uncertainty_nm == RMul(RDiv(RAdd(final.unc_lat, final.unc_lon), I(2)), I(60))
        cloud == generate_probability_cloud(ServerGridSize, final.pred_lat, final.pred_lon,
                                            final.unc_lat, final.unc_lon)
    IN  [locals   |-> [aggression |-> p.aggression,
                       tried_lstm |-> p.tried_lstm,
                       use_lstm   |-> p.use_lstm,
                       X          |-> final.X,
                       velocity_norm |-> final.velocity_norm],
         response |-> [vessel_id           |-> request.vessel_id,
                       predicted_position  |-> <<final.pred_lat, final.pred_lon>>,
                       uncertainty_nm      |-> uncertainty_nm,
                       uncertainty_degrees |-> <<final.unc_lat, final.unc_lon>>,
                       method              |-> final.method,
                       model_confidence    |-> final.confidence,
                       probability_cloud   |-> cloud]]

\* predict_path: the locals at the return statement and the response
predict_path(model, nz, request, outcome) ==
    CHOOSE returned \in
        {Return(request, p) : p \in {Predicted(model, nz, request, outcome)}} : TRUE

\* --- requests and environment of the server ---
PositionPoint(lat, lon, speed, course) ==
    [lat |-> lat, lon |-> lon, speed |-> speed, course |-> course]

\* last positions: on the equator with a cardinal course, or at 60 N on a
\* meridian course; speed 0 stands for a missing speed as well
LastPositions ==
    {PositionPoint(I(0), I(0), speed, course) :
        speed \in {I(0), I(20)}, course \in {I(0), I(90), I(180)}}
    \cup
    {PositionPoint(I(60), I(0), speed, course) :
        speed \in {I(0), I(20)}, course \in {I(0), I(180)}}

GapHours == {I(0), I(6), I(120)}

AggressionFactors == {Rat(1, 10), Rat(1, 4), I(1), I(4), I(10), I(50)}

ModelTypes == {"lstm", "baseline"}

\* no sequence, one too short, and one longer than the model's input, on
\* which the vessel slows down towards the last position
SequencesFor(last_position) ==
    {NoValue,
     <<last_position>>,
     [k \in 1..(SEQUENCE_LENGTH + 1) |->
        [last_position EXCEPT
            !.lon = RSub(@, Rat((SEQUENCE_LENGTH + 1 - k) * (SEQUENCE_LENGTH + 1 - k), 10))]]}

ServerRequests ==
    UNION {{[vessel_id          |-> VesselId,
             last_position      |-> last_position,
             gap_duration_hours |-> gap,
             sequence           |-> sequence,
             model_type         |-> model_type,
             aggression_factor  |-> aggression_factor] :
                gap \in GapHours, sequence \in SequencesFor(last_position),
                model_type \in ModelTypes, aggression_factor \in AggressionFactors} :
           last_position \in LastPositions}

\* what the learned model returns, and the statement of the try block that
\* raises ("none": no statement does)
Outcomes ==
    [velocity_norm : {<<I(1), Rat(-1, 2)>>},
     fail : {"none", "prepare", "predict", "denormalize", "uncertainty"}]
    \cup {[velocity_norm |-> <<I(0), I(2)>>, fail |-> "none"]}

\* the contents of models/normalizer_v3.json, when the file exists
NormalizerFiles ==
    {[stats |-> [lat_std |-> I(2)], fitted |-> TRUE, coord_scale |-> I(2),
      max_speed |-> I(30), velocity_scale |-> Rat(1, 4)]}

\* models/lstm_v3.h5: absent, unreadable (load_model raises), readable but
\* failing in compile, or good
ModelFiles == {"absent", "unreadable", "uncompilable", "good"}

ServerStart ==
    /\ lstm_model = NoValue
    /\ normalizer = NoValue
    /\ baseline_model = NewBaseline(UncertaintyFactorDefault)
    /\ sRequest = NoValue
    /\ sOutcome = NoValue
    /\ sLocals = NoValue
    /\ sResponse = NoValue
    /\ sPc = "startup"

\* load_models, called once by the startup handler
LoadModels(normalizer_file, TF_AVAILABLE, model_file) ==
    /\ sPc = "startup"
    /\ normalizer' = IF normalizer_file # NoValue
                     THEN NormalizerLoad(NewNormalizer, normalizer_file)
                     ELSE normalizer
    \* the global is assigned as soon as load_model returns
    /\ lstm_model' = IF TF_AVAILABLE /\ model_file \in {"uncompilable", "good"}
                     THEN LstmV3
                     ELSE lstm_model
    /\ sPc' = "ready"
    /\ UNCHANGED <<baseline_model, sRequest, sOutcome, sLocals, sResponse>>
    /\ UNCHANGED notServerVars

\* a fallback that stores the stretched gap's factor on the shared model
SharedAfterStoringAggression(model, nz, baseline, returned) ==
    [lstm_model     |-> model,
     normalizer     |-> nz,
     baseline_model |->
        IF returned.response.method = "dead_reckoning"
        THEN [baseline EXCEPT
                !.uncertainty_factor = RMul(@, returned.locals.aggression)]
        ELSE baseline]

\* the shared objects when predict_path returns: the function has no global
\* statement, prepare_input_v3 only reads normalizer.stats (with .get) and
\* normalizer.max_speed, the try block only reads normalizer.velocity_scale
\* and calls lstm_model.predict, and baseline_model.predict assigns no
\* attribute of self
SharedAfter(model, nz, baseline, returned) ==
    [lstm_model |-> model, normalizer |-> nz, baseline_model |-> baseline]

\* POST /predict.  outcome is NoValue when the learned model is not called.
Answer(request, outcome) ==
    /\ outcome = NoValue <=> ~UseLstm(request.model_type, lstm_model, normalizer)
    /\ \E returned \in {predict_path(lstm_model, normalizer, request, outcome)} :
        /\ sRequest' = request
        /\ sOutcome' = outcome
        /\ sLocals' = returned.locals
        /\ sResponse' = returned.response
        /\ sPc' = "served"
        /\ LET after == SharedAfter(lstm_model, normalizer, baseline_model, returned)
           IN  /\ lstm_model' = after.lstm_model
               /\ normalizer' = after.normalizer
               /\ baseline_model' = after.baseline_model
        /\ UNCHANGED notServerVars

\* the first request after startup
PredictPath ==
    /\ sPc = "ready"
    /\ \E request \in ServerRequests, outcome \in Outcomes \cup {NoValue} :
            Answer(request, outcome)

OtherModelType(model_type) == IF model_type = "lstm" THEN "baseline" ELSE "lstm"

\* a later request, where the history could matter: after a failure of the
\* learned branch the client sends the same request again, and this time no
\* statement raises; on a server without a model it sends the request again
\* with the other model_type
PredictPathAgain ==
    /\ sPc = "served"
    /\ \/ /\ sLocals.tried_lstm /\ ~sLocals.use_lstm
          /\ Answer(sRequest, [sOutcome EXCEPT !.fail = "none"])
       \/ /\ lstm_model = NoValue
          /\ Answer([sRequest EXCEPT !.model_type = OtherModelType(@)], NoValue)

ServerIdle ==
    /\ lstm_model = NoValue
    /\ normalizer = NoValue
    /\ baseline_model = NewBaseline(UncertaintyFactorDefault)
    /\ sRequest = NoValue
    /\ sOutcome = NoValue
    /\ sLocals = NoValue
    /\ sResponse = NoValue
    /\ sPc = "idle"

(***************************************************************************)
(* SpecLoad: load_models constructs the normalizer and load fills it,      *)
(* statement by statement; transform_X then uses it                        *)
(***************************************************************************)
\* the keys save writes (normalizer_v3.py, lines 141-148)
RecordKeys == {"version", "stats", "coord_scale", "max_speed", "velocity_scale", "fitted"}

\* what save wrote after a fit: a value for every key
SavedRecord ==
    [version |-> 3, stats |-> [lat_std |-> I(2)], coord_scale |-> I(2),
     max_speed |-> I(25), velocity_scale |-> Rat(1, 4), fitted |-> TRUE]

\* file contents: the saved record with any of its keys removed, and with or
\* without the key lat_std in its stats.  keys is the set of keys present; the
\* value kept under an absent key is never read.
NormalizerRecords ==
    {[keys |-> ks, data |-> [SavedRecord EXCEPT !.stats = st]] :
        ks \in SUBSET RecordKeys, st \in {SavedRecord.stats, [lat_std |-> NoValue]}}

LoadStart ==
    /\ lData \in NormalizerRecords \cup {NoValue}
    /\ lCoordScale = NoValue
    /\ lPc = "83"

\* load_models, lines 83-84: normalizer = TrajectoryNormalizerV3()
ConstructNormalizer ==
    /\ lPc = "83"
    /\ IF lData # NoValue
       THEN normalizer' = NewNormalizer /\ lPc' = "154"
       ELSE normalizer' = normalizer /\ lPc' = "absent"
    /\ UNCHANGED <<lData, lCoordScale>>
    /\ UNCHANGED notLoadVars

\* data[key]: KeyError when the key is absent
LoadSubscript(line, key, next) ==
    /\ lPc = line
    /\ IF key \in lData.keys
       THEN /\ normalizer' = [normalizer EXCEPT ![key] = lData.data[key]]
            /\ lPc' = next
       ELSE /\ normalizer' = normalizer
            /\ lPc' = "raised"
    /\ UNCHANGED <<lData, lCoordScale>>
    /\ UNCHANGED notLoadVars

\* line 154: self.stats = data['stats']
LoadStats == LoadSubscript("154", "stats", "155")

\* line 155: self.coord_scale = data.get('coord_scale', 1.0)
LoadCoordScale ==
    /\ lPc = "155"
    /\ normalizer' = [normalizer EXCEPT
                        !.coord_scale = IF "coord_scale" \in lData.keys
                                        THEN lData.data.coord_scale ELSE I(1)]
    /\ lPc' = "156"
    /\ UNCHANGED <<lData, lCoordScale>>
    /\ UNCHANGED notLoadVars

\* line 156: self.max_speed = data['max_speed']
LoadMaxSpeed == LoadSubscript("156", "max_speed", "157")

\* line 157: self.velocity_scale = data['velocity_scale']
LoadVelocityScale == LoadSubscript("157", "velocity_scale", "158")

\* line 158: self.fitted = data['fitted']
LoadFitted == LoadSubscript("158", "fitted", "loaded")

\* transform_X, line 88: coord_scale = max(self.stats.get('lat_std', 1.0), 1.0)
TransformXCoordScale(nz) ==
    RMax(IF nz.stats.lat_std = NoValue THEN I(1) ELSE nz.stats.lat_std, I(1))

\* a transform_X that divides the coordinates without subtracting the
\* sequence's last point
TransformXAbsolute(nz, X) ==
    [k \in 1..Len(X) |->
        <<RDiv(X[k][1], TransformXCoordScale(nz)),
          RDiv(X[k][2], TransformXCoordScale(nz)),
          RDiv(X[k][3], nz.max_speed),
          Sin(X[k][4]),
          Cos(X[k][4])>>]

\* transform_X for one sample X of rows <<lat, lon, speed, course>>: rows
\* <<lat_rel, lon_rel, speed_norm, course_sin, course_cos>>.  (The final
\* astype(float32) is not modelled; prepare_input_v3 works in float32 from
\* the start.)
transform_X(nz, X) ==
    LET last_lat    == X[Len(X)][1]
        last_lon    == X[Len(X)][2]
        coord_scale == TransformXCoordScale(nz)
    IN  [k \in 1..Len(X) |->
            <<RDiv(RSub(X[k][1], last_lat), coord_scale),
              RDiv(RSub(X[k][2], last_lon), coord_scale),
              RDiv(X[k][3], nz.max_speed),
              Sin(X[k][4]),
              Cos(X[k][4])>>]

\* a transform_X on the loaded normalizer
TransformX ==
    /\ lPc = "loaded"
    /\ lCoordScale' = TransformXCoordScale(normalizer)
    /\ lPc' = "transformed"
    /\ UNCHANGED <<lData, normalizer>>
    /\ UNCHANGED notLoadVars

(***************************************************************************)
(* SpecTransform: transform_X is applied to a training sample and to the   *)
(* same track displaced by an offset, recorded with another gap duration   *)
(***************************************************************************)
TransformRows ==
    {<<p[1], p[2], speed, course>> :
        p \in NormPoints, speed \in {I(0), I(15)}, course \in {I(0), I(90)}}

TransformOffsets == {<<I(1), Rat(-1, 2)>>, <<I(-60), I(10)>>}

\* the rows displaced by <<dlat, dlon>>
Displaced(X, offset) ==
    [k \in 1..Len(X) |->
        <<RAdd(X[k][1], offset[1]), RAdd(X[k][2], offset[2]), X[k][3], X[k][4]>>]

TransformStart ==
    /\ xNormalizer \in {[NewNormalizer EXCEPT !.stats = st, !.fitted = TRUE] :
                            st \in {[lat_std |-> NoValue], [lat_std |-> I(2)]}}
    /\ xSample \in {[X |-> <<first, <<p[1], p[2], I(15), I(90)>>>>, gap_hours |-> I(6)] :
                        first \in TransformRows, p \in NormPoints}
    /\ xOffset \in TransformOffsets
    /\ xOut = NoValue
    /\ xShiftedOut = NoValue
    /\ xPc = "input"

\* X_norm = normalizer.transform_X(X): the gap durations are no argument
TransformSample ==
    /\ xPc = "input"
    /\ xOut' = transform_X(xNormalizer, xSample.X)
    /\ xPc' = "transformed"
    /\ UNCHANGED <<xNormalizer, xSample, xOffset, xShiftedOut>>
    /\ UNCHANGED notTransformVars

\* the displaced sample, whose gap lasted 120 hours
TransformDisplaced ==
    /\ xPc = "transformed"
    /\ \E sample \in {[X |-> Displaced(xSample.X, xOffset), gap_hours |-> I(120)]} :
          xShiftedOut' = transform_X(xNormalizer, sample.X)
    /\ xPc' = "done"
    /\ UNCHANGED <<xNormalizer, xSample, xOffset, xOut>>
    /\ UNCHANGED notTransformVars

NextTransform ==
    \/ TransformSample
    \/ TransformDisplaced

TransformIdle ==
    /\ xNormalizer = NoValue
    /\ xSample = NoValue
    /\ xOffset = NoValue
    /\ xOut = NoValue
    /\ xShiftedOut = NoValue
    /\ xPc = "idle"

NextLoad ==
    \/ ConstructNormalizer
    \/ LoadStats
    \/ LoadCoordScale
    \/ LoadMaxSpeed
    \/ LoadVelocityScale
    \/ LoadFitted
    \/ TransformX

LoadIdle ==
    /\ lData = NoValue
    /\ lCoordScale = NoValue
    /\ lPc = "idle"

(***************************************************************************)
(* VesselTrackFetcher.fetch_multiple_regions (ml/data/fetch_vessel_tracks) *)
(*                                                                         *)
(* The file system is a function from paths to contents.  What the         *)
(* upstream API and the disk do to the fetch of a region is an input:      *)
(* "ok"; "http", any failure up to response.json() (connection error,      *)
(* 422, 429, raise_for_status, a body that is no JSON), which raises       *)
(* before the file is opened; "write", an OSError in json.dump after       *)
(* open(filepath, "w") has created or truncated the file.                  *)
(***************************************************************************)
\* the longest list of regions
MaxRegions == 3

RegionIds == 1..MaxRegions

\* output_path / f"tracks_{region_id}_{start_date}_{end_date}.json", for the
\* one date range and output_dir of the call
Filepath(region_id) == <<"tracks", region_id>>

\* a file of output_dir that no region of the call is written to
OtherPath == <<"other", 0>>

Paths == {Filepath(id) : id \in RegionIds} \cup {OtherPath}

AbsentFile == [state |-> "absent", data |-> "none"]

PartialFile == [state |-> "partial", data |-> "new"]

\* the file json.dump has written in full during this call
NewFile == [state |-> "complete", data |-> "new"]

\* a file left by an earlier run
OldFile == [state |-> "complete", data |-> "old"]

\* fetch_tracks, lines 112-176: whether it raised, the path it returned, and
\* the files it leaves
fetch_tracks(region_id, upstream, files) ==
    LET filepath == Filepath(region_id)
    IN  CASE upstream = "http" ->
                [raised |-> TRUE, filepath |-> NoValue, files |-> files]
          [] upstream = "write" ->
                [raised |-> TRUE, filepath |-> NoValue,
                 files |-> [files EXCEPT ![filepath] = PartialFile]]
          [] upstream = "ok" ->
                [raised |-> FALSE, filepath |-> filepath,
                 files |-> [files EXCEPT ![filepath] = NewFile]]

\* one iteration of the loop of fetch_multiple_regions, lines 198-210
FetchStep(region, upstream, acc) ==
    LET call == fetch_tracks(region.id, upstream[region.id], acc.files)
    IN  [files     |-> call.files,
         attempted |-> Append(acc.attempted, region.id),
         raised    |-> call.raised,
         filepaths |-> IF call.raised THEN acc.filepaths
                       ELSE Append(acc.filepaths, call.filepath)]

\* a loop that gives up at the first failure
RECURSIVE FetchLoopStoppingAtFailure(_, _, _, _)
FetchLoopStoppingAtFailure(regions, upstream, k, acc) ==
    IF k > Len(regions) THEN acc
    ELSE LET next == FetchStep(regions[k], upstream, acc)
         IN  IF next.raised THEN next
             ELSE FetchLoopStoppingAtFailure(regions, upstream, k + 1, next)

\* for region in regions: try ... except Exception: continue
RECURSIVE FetchLoop(_, _, _, _)
FetchLoop(regions, upstream, k, acc) ==
    IF k > Len(regions) THEN acc
    ELSE FetchLoop(regions, upstream, k + 1, FetchStep(regions[k], upstream, acc))

\* fetch_multiple_regions: the returned list, the calls made and the files
fetch_multiple_regions(regions, upstream, files) ==
    FetchLoop(regions, upstream, 1,
              [files |-> files, attempted |-> <<>>, raised |-> FALSE,
               filepaths |-> <<>>])

\* lists of distinct regions, each with its id
RegionLists ==
    {regions \in UNION {[1..n -> {[id |-> id] : id \in RegionIds}] : n \in 0..MaxRegions} :
        \A i \in 1..Len(regions), j \in 1..Len(regions) :
            regions[i] = regions[j] => i = j}

FetchStart ==
    /\ fRegions \in RegionLists
    /\ fUpstream \in [RegionIds -> {"ok", "http", "write"}]
    /\ fFilesBefore \in
          {[path \in Paths |-> IF path = OtherPath THEN OldFile ELSE AbsentFile],
           [path \in Paths |-> IF path \in {OtherPath, Filepath(1)}
                               THEN OldFile ELSE AbsentFile]}
    /\ fFiles = fFilesBefore
    /\ fAttempted = <<>>
    /\ fReturned = NoValue
    /\ fPc = "called"

FetchMultipleRegions ==
    /\ fPc = "called"
    /\ \E r \in {fetch_multiple_regions(fRegions, fUpstream, fFiles)} :
          /\ fFiles' = r.files
          /\ fAttempted' = r.attempted
          /\ fReturned' = r.filepaths
    /\ fPc' = "returned"
    /\ UNCHANGED <<fRegions, fUpstream, fFilesBefore>>
    /\ UNCHANGED notFetchVars

NextFetch ==
    \/ FetchMultipleRegions

FetchIdle ==
    /\ fRegions = NoValue
    /\ fUpstream = NoValue
    /\ fFilesBefore = NoValue
    /\ fFiles = NoValue
    /\ fAttempted = NoValue
    /\ fReturned = NoValue
    /\ fPc = "idle"

(***************************************************************************)
(* AISGapDetector.filter_gaps_by_duration                                  *)
(*                                                                         *)
(* An optional bound is [given |-> FALSE] for None and [given |-> TRUE,    *)
(* value |-> v] for a number.                                              *)
(***************************************************************************)
\* the longest list of gaps
MaxGaps == 3

None == [given |-> FALSE]

Given(value) == [given |-> TRUE, value |-> value]

\* Python's truth value of an Optional[float]: None and 0 are false
Truthy(bound) == bound.given /\ bound.value # 0

\* lines 233-241: whether the loop appends gap
KeepsGap(gap, min_hours, max_hours) ==
    LET duration == gap.gap_duration_hours
    IN  /\ ~(Truthy(min_hours) /\ duration < min_hours.value)
        /\ ~(Truthy(max_hours) /\ duration > max_hours.value)

filter_gaps_by_duration(gaps, min_hours, max_hours) ==
    SelectSeq(gaps, LAMBDA gap : KeepsGap(gap, min_hours, max_hours))

GapDurations == {0, 6, 12}

OptionalHours == {None} \cup {Given(h) : h \in {0, 6, 12}}

FilterStart ==
    /\ qGaps \in UNION {[1..n -> {[vessel_id |-> VesselId, gap_duration_hours |-> h] :
                                      h \in GapDurations}] : n \in 0..MaxGaps}
    /\ qMinHours \in OptionalHours
    /\ qMaxHours \in OptionalHours
    /\ qFiltered = NoValue
    /\ qPc = "called"

FilterGapsByDuration ==
    /\ qPc = "called"
    /\ qFiltered' = filter_gaps_by_duration(qGaps, qMinHours, qMaxHours)
    /\ qPc' = "returned"
    /\ UNCHANGED <<qGaps, qMinHours, qMaxHours>>
    /\ UNCHANGED notFilterVars

NextFilter ==
    \/ FilterGapsByDuration

FilterIdle ==
    /\ qGaps = NoValue
    /\ qMinHours = NoValue
    /\ qMaxHours = NoValue
    /\ qFiltered = NoValue
    /\ qPc = "idle"

(***************************************************************************)
(* ProbabilityCloudGenerator (src_ml/prediction/generate_cloud.py)         *)
(***************************************************************************)
\* the largest grid_size the generator is constructed with
CloudGridSize == 3

\* __init__: num_std
NumStdDefault == I(2)

\* a grid that stops one step short of its upper end
LinspaceOpenEnded(start, stop, num, i) ==
    RAdd(start, RDiv(RMul(RSub(stop, start), I(i)), I(num)))

\* np.linspace(start, stop, num)[i], i from 0
Linspace(start, stop, num, i) ==
    IF num = 1 THEN start
    ELSE RAdd(start, RDiv(RMul(RSub(stop, start), I(i)), I(num - 1)))

\* generate_from_prediction
generate_from_prediction(grid_size, num_std, predicted_position, uncertainty_degrees) ==
    LET lat == predicted_position[1]
        lon == predicted_position[2]
        unc_lat == uncertainty_degrees[1]
        unc_lon == uncertainty_degrees[2]
        lat_range == RMul(RMul(unc_lat, num_std), I(2))
        lon_range == RMul(RMul(unc_lon, num_std), I(2))
        lat_min == RSub(lat, RDiv(lat_range, I(2)))
        lat_max == RAdd(lat, RDiv(lat_range, I(2)))
        lon_min == RSub(lon, RDiv(lon_range, I(2)))
        lon_max == RAdd(lon, RDiv(lon_range, I(2)))
        Cell(k) ==
            LET i == (k - 1) \div grid_size
                j == (k - 1) % grid_size
                lat_mesh == Linspace(lat_min, lat_max, grid_size, i)
                lon_mesh == Linspace(lon_min, lon_max, grid_size, j)
                dlat == RDiv(RSub(lat_mesh, lat), unc_lat)
                dlon == RDiv(RSub(lon_mesh, lon), unc_lon)
            IN  [coordinates |-> <<lon_mesh, lat_mesh>>,
                 probability |-> ExpNegHalf(RAdd(RMul(dlat, dlat), RMul(dlon, dlon)))]
    IN  [features |->
            CHOOSE cloud \in
                {Normalize(cells, SumProbability(cells, Len(cells))) :
                    cells \in {[k \in 1..(grid_size * grid_size) |-> Cell(k)]}} : TRUE,
         metadata |-> [grid_size |-> grid_size,
                       predicted_position |-> <<lat, lon>>,
                       uncertainty_degrees |-> <<unc_lat, unc_lon>>]]

\* the calls made: a generator of either extent and grid, a prediction with
\* positive uncertainties
CloudCalls ==
    [grid_size : {CloudGridSize - 1, CloudGridSize},
     num_std : {NumStdDefault, I(3)},
     predicted_position : {<<I(0), I(0)>>, <<I(10), I(-20)>>, <<I(60), I(179)>>},
     uncertainty_degrees : {Rat(1, 10), Rat(1, 2), I(1)} \X {Rat(1, 10), Rat(1, 2), I(1)}]

CloudStart ==
    /\ gArgs \in CloudCalls
    /\ gCloud = NoValue
    /\ gPc = "called"

GenerateFromPrediction ==
    /\ gPc = "called"
    /\ gCloud' = generate_from_prediction(gArgs.grid_size, gArgs.num_std,
                                          gArgs.predicted_position,
                                          gArgs.uncertainty_degrees)
    /\ gPc' = "done"
    /\ UNCHANGED gArgs
    /\ UNCHANGED notCloudVars

CloudIdle ==
    /\ gArgs = NoValue
    /\ gCloud = NoValue
    /\ gPc = "idle"

\* the prediction service: the server, or the stand-alone cloud generator
PredictStart ==
    \/ ServerStart /\ CloudIdle
    \/ ServerIdle /\ CloudStart

NextPredict ==
    \/ \E normalizer_file \in NormalizerFiles \cup {NoValue},
          TF_AVAILABLE \in BOOLEAN, model_file \in ModelFiles :
            LoadModels(normalizer_file, TF_AVAILABLE, model_file)
    \/ PredictPath
    \/ PredictPathAgain
    \/ GenerateFromPrediction

(***************************************************************************)
(* Specifications                                                          *)
(***************************************************************************)
InitNorm ==
    NormStart /\ DetectIdle /\ BuildIdle /\ ServerIdle /\ CloudIdle /\ BaselineIdle
    /\ LoadIdle /\ FetchIdle /\ FilterIdle /\ TransformIdle

SpecNorm == InitNorm /\ [][NextNorm]_vars

(***************************************************************************)
(* SpecPipeline: one vessel history is scanned for gaps, and a sequence is *)
(* built for one of the detected gap events from the same history          *)
(***************************************************************************)
\* longest history of the pipeline
MaxPipelineTrack == 4

\* the vessel steams east along the equator, one degree an hour
PipelinePositions(sep) ==
    {[lat |-> I(0), lon |-> I(t), timestamp |-> Ts(t, sep)] : t \in DetectTimes}

PipelineTracks ==
    UNION {[1..n -> PipelinePositions(sep)] : n \in 2..MaxPipelineTrack, sep \in 0..1}

PipelineStart ==
    /\ dThreshold = GapThresholdDefault
    /\ dPositions \in PipelineTracks
    /\ dMinPointsBefore = NoValue
    /\ dSorted = NoValue
    /\ dGaps = NoValue
    /\ dPc = "input"
    /\ bGapEvent = NoValue
    /\ bPositions = NoValue
    /\ bResult = NoValue
    /\ bSelf = NewTrackPreprocessor(SequenceLength)
    /\ bCalls = <<>>
    /\ bPc = "waiting"
    /\ pFeatures = NoValue
    /\ pResult = NoValue
    /\ pPc = "idle"

\* preprocess_from_gaps_file, lines 263-272: each gap event is preprocessed
\* with the positions of its vessel, which lines 246-250 sorted by timestamp
PreprocessDetectedGap ==
    /\ dPc = "done"
    /\ bPc = "waiting"
    /\ \E k \in 1..Len(dGaps) :
          /\ bGapEvent' = dGaps[k]
          /\ bPositions' = dSorted
          /\ bResult' = preprocess_gap_event(bSelf.sequence_length, dGaps[k], dSorted)
          /\ bSelf' = SelfAfter(bSelf, dGaps[k], dSorted)
    /\ bPc' = "done"
    /\ UNCHANGED <<bCalls, pFeatures, pResult, pPc>>
    /\ UNCHANGED notBuildVars

NextPipeline ==
    \/ \E min_points_before \in {0, 1} : DetectGaps(min_points_before)
    \/ PreprocessDetectedGap

InitDetect ==
    DetectStart /\ NormIdle /\ BuildIdle /\ ServerIdle /\ CloudIdle /\ BaselineIdle
    /\ LoadIdle /\ FetchIdle /\ FilterIdle /\ TransformIdle

InitBuild ==
    BuildStart /\ NormIdle /\ DetectIdle /\ ServerIdle /\ CloudIdle /\ BaselineIdle
    /\ LoadIdle /\ FetchIdle /\ FilterIdle /\ TransformIdle

SpecBuild == InitBuild /\ [][NextBuild]_vars

InitBuildRepeatedly ==
    BuildRepeatedlyStart /\ NormIdle /\ DetectIdle /\ ServerIdle /\ CloudIdle
    /\ BaselineIdle /\ LoadIdle /\ FetchIdle /\ FilterIdle /\ TransformIdle

SpecBuildRepeatedly == InitBuildRepeatedly /\ [][NextBuildRepeatedly]_vars

InitBuildKinematics ==
    BuildKinematicsStart /\ NormIdle /\ DetectIdle /\ ServerIdle /\ CloudIdle
    /\ BaselineIdle /\ LoadIdle /\ FetchIdle /\ FilterIdle /\ TransformIdle

SpecBuildKinematics == InitBuildKinematics /\ [][NextBuildKinematics]_vars

SpecDetect == InitDetect /\ [][NextDetect]_vars

InitDetectAny ==
    DetectStartAny /\ NormIdle /\ BuildIdle /\ ServerIdle /\ CloudIdle /\ BaselineIdle
    /\ LoadIdle /\ FetchIdle /\ FilterIdle /\ TransformIdle

SpecDetectAny == InitDetectAny /\ [][NextDetect]_vars

InitPredict ==
    PredictStart /\ NormIdle /\ DetectIdle /\ BuildIdle /\ BaselineIdle /\ LoadIdle
    /\ FetchIdle /\ FilterIdle /\ TransformIdle

InitBaseline ==
    BaselineStart /\ NormIdle /\ DetectIdle /\ BuildIdle /\ ServerIdle /\ CloudIdle
    /\ LoadIdle /\ FetchIdle /\ FilterIdle /\ TransformIdle

InitLoad ==
    LoadStart /\ ServerIdle /\ NormIdle /\ DetectIdle /\ BuildIdle /\ CloudIdle
    /\ BaselineIdle /\ FetchIdle /\ FilterIdle /\ TransformIdle

InitFetch ==
    FetchStart /\ ServerIdle /\ NormIdle /\ DetectIdle /\ BuildIdle /\ CloudIdle
    /\ BaselineIdle /\ LoadIdle /\ FilterIdle /\ TransformIdle

InitFilter ==
    FilterStart /\ ServerIdle /\ NormIdle /\ DetectIdle /\ BuildIdle /\ CloudIdle
    /\ BaselineIdle /\ LoadIdle /\ FetchIdle /\ TransformIdle

InitTransform ==
    TransformStart /\ ServerIdle /\ NormIdle /\ DetectIdle /\ BuildIdle /\ CloudIdle
    /\ BaselineIdle /\ LoadIdle /\ FetchIdle /\ FilterIdle

InitPipeline ==
    PipelineStart /\ NormIdle /\ ServerIdle /\ CloudIdle /\ BaselineIdle
    /\ LoadIdle /\ FetchIdle /\ FilterIdle /\ TransformIdle

SpecPipeline == InitPipeline /\ [][NextPipeline]_vars

SpecTransform == InitTransform /\ [][NextTransform]_vars

SpecFilter == InitFilter /\ [][NextFilter]_vars

SpecFetch == InitFetch /\ [][NextFetch]_vars

SpecLoad == InitLoad /\ [][NextLoad]_vars

SpecBaseline == InitBaseline /\ [][NextBaseline]_vars

SpecPredict == InitPredict /\ [][NextPredict]_vars

(***************************************************************************)
(* Claims                                                                  *)
(***************************************************************************)
\* the round trip of the claim: the same gap and the sequence's last point
NormRoundTrip ==
    /\ nPc = "inverted"
    /\ nInvArgs.gap_hours = nGap
    /\ nInvArgs.reference = LastRow(nX)

\* 1e-4 degrees
RoundTripTolerance == Rat(1, 10000)

NormReconstructs ==
    \A k \in 1..2 : RLeq(RAbs(RSub(nRecon[k], nY[k])), RoundTripTolerance)

\* C1: for every sequence, target and gap g > 0 (also 0 < g < 0.1),
\* inverse_transform_y(transform_y(seq, target, g), last(seq), g) is the target
\* within 1e-4 degrees.
C1_RoundTripAnyPositiveGap ==
    (NormRoundTrip /\ RLt(I(0), nGap)) => NormReconstructs

\* the qualifying pairs of the sorted list, by the 1-based place of the earlier point
QualifyingPlaces ==
    {i \in 1..(Len(dSorted) - 1) :
        /\ dSorted[i + 1].timestamp.h - dSorted[i].timestamp.h >= dThreshold
        /\ i - 1 >= dMinPointsBefore}

\* the k-th smallest element of a finite set of integers
RECURSIVE KthSmallest(_, _)
KthSmallest(S, k) ==
    LET m == CHOOSE x \in S : \A y \in S : x <= y
    IN  IF k = 1 THEN m ELSE KthSmallest(S \ {m}, k - 1)

\* s holds the elements of t (with their multiplicity), in non-decreasing time
IsTimeSortedPermutation(s, t) ==
    /\ Len(s) = Len(t)
    /\ \A x \in {t[j] : j \in 1..Len(t)} :
          Cardinality({j \in 1..Len(s) : s[j] = x}) = Cardinality({j \in 1..Len(t) : t[j] = x})
    /\ \A j \in 1..(Len(s) - 1) : s[j].timestamp.h <= s[j + 1].timestamp.h

\* C2: detect returns exactly one event per consecutive pair (i, i+1) of the
\* time-sorted positions with deltaHours >= threshold and i >= minPointsBefore,
\* and nothing else: the event carries that pair and its duration (>= threshold),
\* the events are in chronological order, and none is merged or dropped.
C2_OneEventPerQualifyingPair ==
    dPc = "done" =>
        /\ IsTimeSortedPermutation(dSorted, dPositions)
        /\ Len(dGaps) = Cardinality(QualifyingPlaces)
        /\ \A k \in 1..Len(dGaps) :
              LET i == KthSmallest(QualifyingPlaces, k)
              IN  /\ dGaps[k].last_seen = dSorted[i]
                  /\ dGaps[k].next_seen = dSorted[i + 1]
                  /\ dGaps[k].gap_duration_hours =
                        dSorted[i + 1].timestamp.h - dSorted[i].timestamp.h
                  /\ dGaps[k].gap_duration_hours >= dThreshold
                  /\ dGaps[k].points_before_gap = i
        /\ \A k \in 1..(Len(dGaps) - 1) :
              dGaps[k].gap_start_time.h <= dGaps[k + 1].gap_start_time.h

\* a run with two qualifying intervals of one vessel, both reported
C2_Witness ==
    /\ dPc = "done"
    /\ dMinPointsBefore = 0
    /\ Len(dGaps) = 2
    /\ dPositions # dSorted

Timestamps(s) == [j \in 1..Len(s) |-> s[j].timestamp.h]

\* the scenario: threshold 6 h, reports at 0 h, 5 h and 12 h
Scenario0512 ==
    /\ dPc = "done"
    /\ dThreshold = 6
    /\ Timestamps(dSorted) = <<0, 5, 12>>

OneEventFiveToTwelve ==
    /\ Len(dGaps) = 1
    /\ dGaps[1].gap_start_time.h = 5
    /\ dGaps[1].gap_end_time.h = 12
    /\ dGaps[1].gap_duration_hours = 7
    /\ dGaps[1].last_seen = dSorted[2]
    /\ dGaps[1].next_seen = dSorted[3]

\* C3 (as claimed): with threshold 6 h, reports at 0 h, 5 h and 12 h give exactly
\* one gap event, 5 h -> 12 h of 7 h, and none for 0 h -> 5 h.
C3_ScenarioOneEvent == Scenario0512 => OneEventFiveToTwelve

\* C3 (amended): the same, when the call's min_points_before is at most 1; with
\* the default min_points_before = 5 the three reports give no event at all.
C3_ScenarioOneEventFewPointsBefore ==
    /\ (Scenario0512 /\ dMinPointsBefore <= 1) => OneEventFiveToTwelve
    /\ (Scenario0512 /\ dMinPointsBefore > 1) => dGaps = <<>>

C3_Witness ==
    /\ Scenario0512
    /\ dMinPointsBefore = 1
    /\ Len(dGaps) = 1

\* the history points that are before the gap start, by time
PointsBeforeGap ==
    Cardinality({j \in 1..Len(bPositions) :
                    bPositions[j].timestamp.h < bGapEvent.gap_start_time.h})

\* C4: for every gap event and every history (0, 1, fewer than N, exactly N or
\* more than N points before the gap) the built sequence has exactly
\* sequenceLength records and metadata.sequence_length says so; the rows
\* returned by _pad_or_truncate number sequenceLength for any input length.
C4_SequenceLengthExact ==
    /\ bPc = "done" =>
          /\ Len(bResult.sequence) = SequenceLength
          /\ bResult.metadata.sequence_length = SequenceLength
    /\ pPc = "done" => Len(pResult) = SequenceLength

\* a history with 2 <= k < N points before the gap was padded
C4_Witness ==
    /\ bPc = "done"
    /\ PointsBeforeGap = SequenceLength - 1
    /\ Len(bResult.sequence) = SequenceLength
    /\ bResult.sequence[1].timestamp = bResult.sequence[2].timestamp
    /\ bResult.sequence[SequenceLength].speed # I(0)

\* C5: a response carries the learned-model method only if the request asked
\* for "lstm" and both the model and the normalizer are loaded; on a server
\* whose model was never loaded every request, the first and any later one,
\* is answered by dead reckoning.
C5_LearnedPathOnlyWhenLoaded ==
    sPc = "served" =>
        /\ sResponse.method = "lstm_v3_velocity" =>
              /\ sRequest.model_type = "lstm"
              /\ lstm_model # NoValue
              /\ normalizer # NoValue
        /\ lstm_model = NoValue =>
              /\ sResponse.method = "dead_reckoning"
              /\ ~sLocals.tried_lstm

\* a request for the learned path, with a sequence, answered by a server
\* that has a normalizer but no model
C5_Witness ==
    /\ sPc = "served"
    /\ lstm_model = NoValue
    /\ normalizer # NoValue
    /\ sRequest.model_type = "lstm"
    /\ sRequest.sequence # NoValue
    /\ sRequest.aggression_factor = I(4)
    /\ sResponse.method = "dead_reckoning"

\* the response the same request gets from a server that has no model
DeadReckoningResponse(request) ==
    predict_path(NoValue, normalizer, request, NoValue).response

\* C6: when a statement of the learned branch raises, the request is still
\* answered, with exactly the dead-reckoning response for the same request;
\* the step leaves the loaded model and normalizer as they were, and the same
\* request sent again, with the model working, is answered by the learned path.
C6_FailureFallsBackForThatRequestOnly ==
    [][ /\ (sPc' = "served" /\ sLocals'.tried_lstm /\ sOutcome'.fail # "none") =>
              /\ sResponse' = DeadReckoningResponse(sRequest')
              /\ lstm_model' = lstm_model
              /\ normalizer' = normalizer
        /\ (sPc = "served" /\ sLocals.tried_lstm /\ ~sLocals.use_lstm
                /\ sPc' = "served" /\ sRequest' = sRequest /\ sOutcome'.fail = "none") =>
              sResponse'.method = "lstm_v3_velocity" ]_vars

\* the learned branch had bound a position before it failed, and the
\* response is the dead-reckoning one
C6_Witness ==
    /\ sPc = "served"
    /\ lstm_model # NoValue
    /\ sLocals.tried_lstm
    /\ sOutcome.fail = "uncertainty"
    /\ sRequest.gap_duration_hours = I(6)
    /\ sResponse.method = "dead_reckoning"
    /\ sResponse.predicted_position[2] = sRequest.last_position.lon

\* C7: with no model loaded and model_type "lstm" the response is the
\* dead-reckoning one and its confidence lies in [0.2, 0.5], whatever the
\* aggression factor.
C7_NoModelConfidenceInRange ==
    (sPc = "served" /\ lstm_model = NoValue /\ sRequest.model_type = "lstm") =>
        /\ sResponse.method = "dead_reckoning"
        /\ RLeq(Rat(1, 5), sResponse.model_confidence)
        /\ RLeq(sResponse.model_confidence, Rat(1, 2))

\* clamp(x, 0.25, 10.0), case by case
Clamped(x) ==
    IF RLt(x, Rat(1, 4)) THEN Rat(1, 4)
    ELSE IF RLt(I(10), x) THEN I(10)
    ELSE x

\* C8: the aggression predict_path works with is the request's factor
\* clamped to [0.25, 10]; a factor outside the range is answered like any
\* other, and on the dead-reckoning path the confidence shows the clamped
\* value.
C8_AggressionClamped ==
    sPc = "served" =>
        /\ sLocals.aggression = Clamped(sRequest.aggression_factor)
        /\ sResponse.vessel_id = sRequest.vessel_id
        /\ sResponse.method = "dead_reckoning" =>
              sResponse.model_confidence =
                  RMax(Rat(1, 5), RDiv(Rat(1, 2), Clamped(sRequest.aggression_factor)))

\* a factor of 50 answered with aggression 10
C8_Witness ==
    /\ sPc = "served"
    /\ sRequest.aggression_factor = I(50)
    /\ sLocals.aggression = I(10)
    /\ sResponse.method = "lstm_v3_velocity"

\* the great-circle arc, in degrees, between two points of one meridian
\* circle or of the equator
ArcBetween(p, q) ==
    LET dlon == Atan2SinCos(RSub(q[2], p[2]))
    IN  CASE dlon = I(0)            -> RAbs(RSub(q[1], p[1]))
          [] RAbs(dlon) = I(180)    -> RSub(I(180), RAbs(RAdd(p[1], q[1])))
          [] p[1] = I(0) /\ q[1] = I(0) -> RAbs(dlon)

LastPosition == <<sRequest.last_position.lat, sRequest.last_position.lon>>

\* what the request being answered gets with another aggression factor, the
\* server and the model's behaviour being the same
WithAggression(a) ==
    Predicted(lstm_model, normalizer,
              [sRequest EXCEPT !.aggression_factor = a], sOutcome).final

\* the displacement from the last position is at least as large in q as in
\* p: on the learned path in each coordinate, on the dead-reckoning path
\* along the great circle
DisplacementGrows(p, q) ==
    IF sLocals.use_lstm
    THEN /\ RLeq(RAbs(RSub(p[1], LastPosition[1])), RAbs(RSub(q[1], LastPosition[1])))
         /\ RLeq(RAbs(RSub(p[2], LastPosition[2])), RAbs(RSub(q[2], LastPosition[2])))
    ELSE RLeq(ArcBetween(LastPosition, p), ArcBetween(LastPosition, q))

UncertaintyGrows(u, v) == RLeq(u[1], v[1]) /\ RLeq(u[2], v[2])

\* the distance dead reckoning travels for the request under aggression a
DeadReckoningDistanceNm(a) ==
    RMul(RMul(Or(sRequest.last_position.speed, I(5)), sRequest.gap_duration_hours),
         ClampAggression(a))

\* half the way round the Earth, in the model's nautical miles
HalfWayRoundNm == 180 * NmPerDegree

\* C9: a request that differs only by a larger clamped aggression gets a
\* displacement from the last position and both uncertainties at least as
\* large, on the learned path and on the dead-reckoning path.
C9_LargerAggressionLargerResult ==
    sPc = "served" =>
        \A a \in AggressionFactors :
            RLt(sLocals.aggression, ClampAggression(a)) =>
                LET q == WithAggression(a)
                IN  /\ DisplacementGrows(sResponse.predicted_position,
                                         <<q.pred_lat, q.pred_lon>>)
                    /\ UncertaintyGrows(sResponse.uncertainty_degrees,
                                        <<q.unc_lat, q.unc_lon>>)

\* What does hold: the uncertainties grow with the aggression on either path,
\* and so does the displacement on the learned path; on the dead-reckoning
\* path the displacement grows as long as the distance travelled under the
\* larger aggression is at most half the way round the Earth.
LargerAggressionLargerResultWithinHalfTurn ==
    sPc = "served" =>
        \A a \in AggressionFactors :
            RLt(sLocals.aggression, ClampAggression(a)) =>
                LET q == WithAggression(a)
                IN  /\ (sLocals.use_lstm
                            \/ RLeq(DeadReckoningDistanceNm(a), I(HalfWayRoundNm))) =>
                          DisplacementGrows(sResponse.predicted_position,
                                            <<q.pred_lat, q.pred_lon>>)
                    /\ UncertaintyGrows(sResponse.uncertainty_degrees,
                                        <<q.unc_lat, q.unc_lon>>)

\* dead reckoning at 20 knots over 120 hours: aggression 1 against aggression
\* 4, which stays within half a turn and goes strictly further, with strictly
\* larger uncertainties
WithinHalfTurnCase ==
    /\ sPc = "served"
    /\ sResponse.method = "dead_reckoning"
    /\ sRequest.last_position.speed = I(20)
    /\ sRequest.gap_duration_hours = I(120)
    /\ sLocals.aggression = I(1)
    /\ RLeq(DeadReckoningDistanceNm(I(4)), I(HalfWayRoundNm))
    /\ LET q == WithAggression(I(4))
       IN  /\ RLt(ArcBetween(LastPosition, sResponse.predicted_position),
                  ArcBetween(LastPosition, <<q.pred_lat, q.pred_lon>>))
           /\ RLt(sResponse.uncertainty_degrees[1], q.unc_lat)
           /\ RLt(sResponse.uncertainty_degrees[2], q.unc_lon)

CloudTotal(features) == SumProbability(features, Len(features))

\* C10: the probabilities of the cloud in every response, and of every cloud
\* the generator returns for positive uncertainties, sum to exactly 1.
C10_CloudSumsToOne ==
    /\ sPc = "served" => CloudTotal(sResponse.probability_cloud) = I(1)
    /\ gPc = "done" =>
          /\ RLt(I(0), gArgs.uncertainty_degrees[1])
          /\ RLt(I(0), gArgs.uncertainty_degrees[2])
          /\ CloudTotal(gCloud.features) = I(1)

\* a generated cloud of the full grid, not uniform, off the origin
C10_Witness ==
    /\ gPc = "done"
    /\ gArgs.grid_size = CloudGridSize
    /\ gArgs.predicted_position # <<I(0), I(0)>>
    /\ gArgs.uncertainty_degrees[1] # gArgs.uncertainty_degrees[2]
    /\ Len(gCloud.features) = CloudGridSize * CloudGridSize
    /\ \E k \in 1..Len(gCloud.features) :
          RLt(gCloud.features[1].probability, gCloud.features[k].probability)

\* the feature of cell (i, j), i and j from 0, of a cloud of n x n cells
CellAt(features, n, i, j) == features[i * n + j + 1]

SymmetricField(features, n) ==
    \A i \in 0..(n - 1), j \in 0..(n - 1) :
        LET here == CellAt(features, n, i, j).probability
        IN  /\ CellAt(features, n, n - 1 - i, j).probability = here
            /\ CellAt(features, n, i, n - 1 - j).probability = here
            /\ CellAt(features, n, n - 1 - i, n - 1 - j).probability = here

\* the coordinates run from the position minus extent * uncertainty in the
\* first row and column to the position plus as much in the last, and no
\* cell lies outside
SpansAround(features, n, position, uncertainty, extent) ==
    LET lat == position[1]
        lon == position[2]
        half_lat == RMul(extent, uncertainty[1])
        half_lon == RMul(extent, uncertainty[2])
    IN  /\ \A j \in 0..(n - 1) :
              /\ CellAt(features, n, 0, j).coordinates[2] = RSub(lat, half_lat)
              /\ CellAt(features, n, n - 1, j).coordinates[2] = RAdd(lat, half_lat)
        /\ \A i \in 0..(n - 1) :
              /\ CellAt(features, n, i, 0).coordinates[1] = RSub(lon, half_lon)
              /\ CellAt(features, n, i, n - 1).coordinates[1] = RAdd(lon, half_lon)
        /\ \A k \in 1..Len(features) :
              /\ RLeq(RAbs(RSub(features[k].coordinates[2], lat)), half_lat)
              /\ RLeq(RAbs(RSub(features[k].coordinates[1], lon)), half_lon)

\* C11: the generator returns grid_size x grid_size points whose coordinates
\* span the position minus and plus num_std * uncertainty on each axis, and
\* the probability of cell (i, j) equals that of its mirror images (N-1-i, j),
\* (i, N-1-j) and (N-1-i, N-1-j).
C11_GridSpanAndSymmetry ==
    gPc = "done" =>
        /\ Len(gCloud.features) = gArgs.grid_size * gArgs.grid_size
        /\ SpansAround(gCloud.features, gArgs.grid_size, gArgs.predicted_position,
                       gArgs.uncertainty_degrees, gArgs.num_std)
        /\ SymmetricField(gCloud.features, gArgs.grid_size)

\* a full grid with the default extent, off the origin, with unequal
\* uncertainties, whose corner cells are less likely than an inner cell
C11_Witness ==
    /\ gPc = "done"
    /\ gArgs.grid_size = CloudGridSize
    /\ gArgs.num_std = NumStdDefault
    /\ gArgs.predicted_position = <<I(10), I(-20)>>
    /\ gArgs.uncertainty_degrees = <<Rat(1, 10), Rat(1, 2)>>
    /\ CellAt(gCloud.features, CloudGridSize, 0, 0).coordinates
            = <<Rat(-21, 1), Rat(98, 10)>>
    /\ \E i \in 0..(CloudGridSize - 1), j \in 0..(CloudGridSize - 1) :
          RLt(CellAt(gCloud.features, CloudGridSize, 0, 0).probability,
              CellAt(gCloud.features, CloudGridSize, i, j).probability)

\* C12: predict returns distance_traveled_nm = speed * gap, uncertainty_nm =
\* 5 + uncertainty_factor * gap * speed, and a latitude uncertainty of
\* uncertainty_nm / 60 degrees, for every non-negative speed and gap; and
\* predict((0, 0), 10 kn, 90 degrees, 6 h) with the default factor returns
\* uncertainty_nm = 11 and a position at latitude 0 within 1/100 of a degree
\* of longitude 1.
C12_DeadReckoningFormulas ==
    kPc = "done" =>
        /\ kResult.distance_traveled_nm = RMul(kArgs.last_speed, kArgs.time_gap_hours)
        /\ kResult.uncertainty_nm =
              RAdd(I(5), RMul(RMul(kModel.uncertainty_factor, kArgs.time_gap_hours),
                              kArgs.last_speed))
        /\ kResult.uncertainty_degrees[1] = RDiv(kResult.uncertainty_nm, I(60))
        /\ (/\ kModel.uncertainty_factor = Rat(1, 10)
            /\ kArgs = [last_position |-> <<I(0), I(0)>>, last_speed |-> I(10),
                        last_course |-> I(90), time_gap_hours |-> I(6)])
            => /\ kResult.uncertainty_nm = I(11)
               /\ kResult.predicted_position[1] = I(0)
               /\ RLeq(RAbs(RSub(kResult.predicted_position[2], I(1))), Rat(1, 100))

\* the scenario's call has returned
C12_Witness ==
    /\ kPc = "done"
    /\ kModel.uncertainty_factor = UncertaintyFactorDefault
    /\ kArgs.last_position = <<I(0), I(0)>>
    /\ kArgs.last_speed = I(10)
    /\ kArgs.last_course = I(90)
    /\ kArgs.time_gap_hours = I(6)
    /\ kResult.uncertainty_nm = I(11)
    /\ kResult.method = "dead_reckoning"

\* C13: a request leaves the shared learned model, the shared normalizer
\* (stats, max_speed, velocity_scale, fitted and the rest) and the shared
\* dead-reckoning model exactly as they were, whichever path answers it.
C13_RequestLeavesSharedStateAlone ==
    [][sPc' = "served" =>
          /\ lstm_model' = lstm_model
          /\ normalizer' = normalizer
          /\ baseline_model' = baseline_model]_vars

\* a request whose learned branch failed has been answered by the fallback,
\* with a model and a normalizer loaded
C13_Witness ==
    /\ sPc = "served"
    /\ sLocals.tried_lstm
    /\ ~sLocals.use_lstm
    /\ sResponse.method = "dead_reckoning"
    /\ lstm_model = LstmV3
    /\ normalizer # NoValue
    /\ normalizer.fitted
    /\ baseline_model = NewBaseline(UncertaintyFactorDefault)

\* C14: whenever the shared normalizer is not None, so that a request would
\* use it, its fields are those of the one persisted record being loaded:
\* the load installs a fully populated instance in a single step.
C14_VisibleNormalizerIsOnePersistedRecord ==
    (lPc \notin {"idle", "83", "absent"} /\ lData.keys = RecordKeys /\ normalizer # NoValue)
        => normalizer = NormalizerLoad(NewNormalizer, lData.data)

\* C15: a load that ends without raising has read a record in which every
\* key was present (version, the stats key, coord_scale, max_speed,
\* velocity_scale, fitted), and a later transform_X divides by the persisted
\* lat_std, not by a default put in its place.
C15_LoadRejectsIncompleteRecords ==
    /\ lPc \in {"loaded", "transformed"} =>
          /\ lData.keys = RecordKeys
          /\ lData.data.stats.lat_std # NoValue
          /\ normalizer.coord_scale = lData.data.coord_scale
    /\ lPc = "transformed" => lCoordScale = RMax(lData.data.stats.lat_std, I(1))

\* C16: where predict_from_sequence derives the speed from the previous
\* point, it divides the distance by max(gap, 0.1): a zero, negative or
\* below-0.1 gap is clamped to the floor first, and no division is made by a
\* value below 0.1 (transform_y divides by the same floored gap).
C16_SpeedDerivationClampsGap ==
    (kPc = "done_from_sequence" /\ kLocals.estimate) =>
        /\ kLocals.time_diff = RMax(kArgs.time_gap_hours, GapFloor)
        /\ kLocals.speed = RDiv(kLocals.distance, RMax(kArgs.time_gap_hours, GapFloor))

Unparseable(ts) == ts.h < 0

\* C17: detect_gaps_in_track returns for every list of positions, also when
\* timestamps are missing, None or unparseable; the sorted list has those
\* positions before every position with a parseable timestamp; and no event
\* has such a position as last_seen or next_seen.
C17_DetectToleratesBadTimestamps ==
    dPc \notin {"idle", "input"} =>
        /\ dPc = "done"
        /\ \A i \in 1..Len(dSorted), j \in 1..Len(dSorted) :
              (~Unparseable(dSorted[i].timestamp) /\ Unparseable(dSorted[j].timestamp))
                  => j < i
        /\ \A k \in 1..Len(dGaps) :
              /\ ~Unparseable(dGaps[k].last_seen.timestamp)
              /\ ~Unparseable(dGaps[k].next_seen.timestamp)

\* the regions of the call whose fetch succeeds, in input order
RECURSIVE SucceededPaths(_, _)
SucceededPaths(regions, upstream) ==
    IF regions = <<>> THEN <<>>
    ELSE (IF upstream[regions[1].id] = "ok" THEN <<Filepath(regions[1].id)>> ELSE <<>>)
         \o SucceededPaths(Tail(regions), upstream)

\* C18: whatever subset of the regions fails, fetch_multiple_regions calls
\* fetch_tracks for every region, in input order; returns exactly the paths
\* of the regions that succeeded, in input order; leaves the complete file of
\* every region that succeeded; and leaves alone every file that belongs to
\* no failing region of the call.
C18_BatchContinuesPastFailures ==
    fPc = "returned" =>
        /\ fAttempted = [k \in 1..Len(fRegions) |-> fRegions[k].id]
        /\ fReturned = SucceededPaths(fRegions, fUpstream)
        /\ \A k \in 1..Len(fRegions) :
              fUpstream[fRegions[k].id] = "ok" => fFiles[Filepath(fRegions[k].id)] = NewFile
        /\ \A path \in Paths :
              (\A k \in 1..Len(fRegions) :
                    Filepath(fRegions[k].id) = path => fUpstream[fRegions[k].id] = "http")
                  => fFiles[path] = fFilesBefore[path]

\* a call with three regions of which the second fails: the third is still
\* fetched, and the paths of the first and the third are returned
C18_Witness ==
    /\ fPc = "returned"
    /\ Len(fRegions) = 3
    /\ fUpstream[fRegions[1].id] = "ok"
    /\ fUpstream[fRegions[2].id] = "http"
    /\ fUpstream[fRegions[3].id] = "ok"
    /\ fReturned = <<Filepath(fRegions[1].id), Filepath(fRegions[3].id)>>
    /\ fAttempted = <<fRegions[1].id, fRegions[2].id, fRegions[3].id>>
    /\ fFiles[Filepath(fRegions[1].id)] = NewFile

BeforeGapByTime(positions, gap_start_time) ==
    SelectSeq(positions,
              LAMBDA pos : /\ parse_timestamp(pos.timestamp) >= 0
                           /\ parse_timestamp(pos.timestamp)
                                < parse_timestamp(gap_start_time))

\* C20: when the history holds at least two points before the gap start, the
\* raw points the builder uses are exactly the last sequenceLength+1 history
\* points whose time is strictly before gapStartTime, in history order, and no
\* record of the built sequence has a time at or after gapStartTime, whether
\* the history writes its timestamps with a space or with a T.
C20_OnlyPointsStrictlyBeforeGapStart ==
    (/\ bPc = "done"
     /\ Len(BeforeGapByTime(bPositions, bGapEvent.gap_start_time)) >= 2) =>
        /\ RawPositions(SequenceLength, bGapEvent, bPositions)
             = LastN(BeforeGapByTime(bPositions, bGapEvent.gap_start_time),
                     SequenceLength + 1)
        /\ \A i \in 1..Len(bResult.sequence) :
              parse_timestamp(bResult.sequence[i].timestamp)
                  < parse_timestamp(bGapEvent.gap_start_time)

\* the points the builder selected (not the fallback): at least two
SelectedPoints ==
    IF Len(bPositions) > 1
    THEN LastN(SelectSeq(bPositions,
                         LAMBDA pos : BeforeGap(pos.timestamp, bGapEvent.gap_start_time)),
               SequenceLength + 1)
    ELSE <<>>

\* a record with speed and course forced to 0
Stopped(record) == [record EXCEPT !.speed = I(0), !.course = I(0)]

\* C21 as stated: with 2 <= k <= sequenceLength+1 selected points the output
\* is the k-1 records derived for the points after the first (the bootstrap
\* point is not among them), preceded by copies of the earliest of those
\* records with speed and course 0, up to sequenceLength entries.
C21_BootstrapAlwaysDropped ==
    (bPc = "done" /\ Len(SelectedPoints) >= 2) =>
        LET k       == Len(SelectedPoints)
            derived == [i \in 1..(k - 1) |-> DerivedPoint(SelectedPoints, i + 1)]
            pad     == SequenceLength - (k - 1)
        IN  bResult.sequence =
                [i \in 1..SequenceLength |->
                    IF i <= pad THEN Stopped(derived[1]) ELSE derived[i - pad]]

\* C21 amended: with k = sequenceLength+1 selected points the output is the
\* sequenceLength records derived for the points after the first, in order,
\* and the bootstrap point is dropped; with 2 <= k <= sequenceLength the
\* output ends with the k records of all selected points, the first of them
\* the bootstrap point with speed and course 0, preceded by
\* sequenceLength - k copies of that bootstrap record.
C21_BootstrapDroppedOnlyWhenExtra ==
    (bPc = "done" /\ Len(SelectedPoints) >= 2) =>
        LET k         == Len(SelectedPoints)
            bootstrap == [lat |-> SelectedPoints[1].lat, lon |-> SelectedPoints[1].lon,
                          speed |-> I(0), course |-> I(0),
                          timestamp |-> SelectedPoints[1].timestamp]
            pad       == SequenceLength - k
        IN  /\ Len(bResult.sequence) = SequenceLength
            /\ k = SequenceLength + 1 =>
                  \A i \in 1..SequenceLength :
                      bResult.sequence[i] = DerivedPoint(SelectedPoints, i + 1)
            /\ k <= SequenceLength =>
                  \A i \in 1..SequenceLength :
                      bResult.sequence[i] =
                          IF i <= pad + 1 THEN bootstrap
                          ELSE DerivedPoint(SelectedPoints, i - pad)

\* fewer points than sequenceLength were selected and the vessel moved: the
\* output begins with the bootstrap record and its copy and ends with a
\* record of non-zero derived speed
C21_Witness ==
    /\ bPc = "done"
    /\ Len(SelectedPoints) = SequenceLength - 1
    /\ SelectedPoints[1].lon # SelectedPoints[2].lon
    /\ parse_timestamp(SelectedPoints[1].timestamp)
         < parse_timestamp(SelectedPoints[2].timestamp)
    /\ bResult.sequence[1] = bResult.sequence[2]
    /\ bResult.sequence[2].lon = SelectedPoints[1].lon
    /\ bResult.sequence[2].speed = I(0)
    /\ bResult.sequence[SequenceLength].speed # I(0)

\* C22: when fewer than two history points have a time before the gap start
\* (an empty or absent history included) the call returns sequenceLength
\* entries, all alike, each with the latitude, longitude and timestamp of the
\* gap event's last_seen sample.
C22_FallbackIsCopiesOfLastSeen ==
    (/\ bPc = "done"
     /\ Len(BeforeGapByTime(bPositions, bGapEvent.gap_start_time)) < 2) =>
        /\ Len(bResult.sequence) = SequenceLength
        /\ \A i \in 1..Len(bResult.sequence) :
              /\ bResult.sequence[i] = bResult.sequence[1]
              /\ bResult.sequence[i].lat = bGapEvent.last_seen.lat
              /\ bResult.sequence[i].lon = bGapEvent.last_seen.lon
              /\ bResult.sequence[i].timestamp = bGapEvent.last_seen.timestamp

\* C23: every record of a built sequence has speed >= 0 and 0 <= course < 360
\* after rounding; the record of a selected point has speed 0 when either its
\* timestamp or the previous point's does not parse or no time has elapsed
\* between them, and course 0 when the two points are at most 0.1 km apart.
C23_KinematicsInRange ==
    bPc = "done" =>
        LET raw    == RawPositions(SequenceLength, bGapEvent, bPositions)
            offset == SequenceLength - Len(raw)
        IN  /\ \A j \in 1..Len(bResult.sequence) :
                  /\ RLeq(I(0), bResult.sequence[j].speed)
                  /\ RLeq(I(0), bResult.sequence[j].course)
                  /\ RLt(bResult.sequence[j].course, I(360))
            /\ \A i \in 2..Len(raw) :
                  LET t1 == parse_timestamp(raw[i - 1].timestamp)
                      t2 == parse_timestamp(raw[i].timestamp)
                      km == haversine_distance(raw[i - 1].lat, raw[i - 1].lon,
                                               raw[i].lat, raw[i].lon)
                  IN  /\ (t1 < 0 \/ t2 < 0 \/ t2 <= t1)
                          => bResult.sequence[i + offset].speed = I(0)
                      /\ RLeq(km, Rat(1, 10))
                          => bResult.sequence[i + offset].course = I(0)

\* C24: the returned list holds, in input order, exactly the gaps whose
\* duration is at least min_hours when min_hours is given and at most
\* max_hours when max_hours is given, for every given value, 0 included; the
\* argument list is left as it was.
C24_FilterAppliesEveryGivenBound ==
    qPc = "returned" =>
        qFiltered =
            SelectSeq(qGaps,
                      LAMBDA gap :
                          /\ qMinHours.given => qMinHours.value <= gap.gap_duration_hours
                          /\ qMaxHours.given => gap.gap_duration_hours <= qMaxHours.value)

\* DeadReckoningModel.predict for the request being answered, with the speed
\* and course the request carries, at the given duration
PlainDeadReckoning(time_gap_hours) ==
    DeadReckoningPredict(baseline_model.uncertainty_factor, LastPosition,
                         sRequest.last_position.speed, sRequest.last_position.course,
                         time_gap_hours)

\* C25: a response of the dead-reckoning path carries the position of
\* predict(lastPosition, request speed, request course, gapHours * aggression)
\* and that call's uncertainty, each component multiplied by
\* sqrt(aggression); with aggression 1 both equal plain dead reckoning at
\* gapHours.
C25_FallbackIsDeadReckoningAtStretchedGap ==
    (sPc = "served" /\ sResponse.method = "dead_reckoning") =>
        LET aggression == sLocals.aggression
            stretched  == PlainDeadReckoning(RMul(sRequest.gap_duration_hours, aggression))
        IN  /\ sResponse.predicted_position = stretched.predicted_position
            /\ \A k \in 1..2 :
                  sResponse.uncertainty_degrees[k]
                      = RMul(stretched.uncertainty_degrees[k], SqrtR(aggression))
            /\ aggression = I(1) =>
                  LET plain == PlainDeadReckoning(sRequest.gap_duration_hours)
                  IN  /\ sResponse.predicted_position = plain.predicted_position
                      /\ sResponse.uncertainty_degrees = plain.uncertainty_degrees

\* C26: a response of the learned path is at
\* lastPosition + modelOutput * velocityScale * gapHours * aggression on each
\* axis, which is the displacement of inverse_transform_y(modelOutput,
\* lastPosition, gapHours) multiplied by the aggression; the model output kept
\* in the locals is the one the model returned, the confidence is 0.85 and
\* the latitude uncertainty 0.05 * sqrt(gapHours) * sqrt(aggression).
C26_LearnedPathScalesDisplacement ==
    (sPc = "served" /\ sResponse.method = "lstm_v3_velocity") =>
        LET aggression == sLocals.aggression
            gap_hours  == sRequest.gap_duration_hours
            inverse    == inverse_transform_y(normalizer, sOutcome.velocity_norm,
                                              LastPosition, gap_hours)
        IN  /\ \A k \in 1..2 :
                  /\ sResponse.predicted_position[k] =
                        RAdd(LastPosition[k],
                             RMul(RSub(inverse[k], LastPosition[k]), aggression))
                  /\ sResponse.predicted_position[k] =
                        RAdd(LastPosition[k],
                             RMul(RMul(RMul(sOutcome.velocity_norm[k],
                                            normalizer.velocity_scale),
                                       gap_hours),
                                  aggression))
            /\ sLocals.velocity_norm = sOutcome.velocity_norm
            /\ sResponse.model_confidence = Rat(85, 100)
            /\ sResponse.uncertainty_degrees[1] =
                  RMul(RMul(Rat(1, 20), SqrtR(gap_hours)), SqrtR(aggression))

\* a learned-path response for a 6 hour gap at aggression 4: four times the
\* displacement of the inverse transform
C26_Witness ==
    /\ sPc = "served"
    /\ sResponse.method = "lstm_v3_velocity"
    /\ sLocals.aggression = I(4)
    /\ sRequest.gap_duration_hours = I(6)
    /\ sOutcome.velocity_norm = <<I(1), Rat(-1, 2)>>
    /\ sResponse.predicted_position[1] = RAdd(sRequest.last_position.lat, I(6))
    /\ sResponse.predicted_position[2] = RSub(sRequest.last_position.lon, I(3))

\* a speed or course that is None, or the 0.0 the request model puts in the
\* place of an omitted one
Absent(x) == x = NoValue \/ x = I(0)

\* the raw sequence by the rule: the most recent SEQUENCE_LENGTH points of the
\* request's sequence when it has as many, else SEQUENCE_LENGTH copies of the
\* last position with the speed set to 5 kn when it is absent
RawByRule ==
    LET sequence == sRequest.sequence
        last_pos == sRequest.last_position
        n        == SEQUENCE_LENGTH
    IN  IF sequence # NoValue /\ Len(sequence) >= n
        THEN [k \in 1..n |->
                <<sequence[Len(sequence) - n + k].lat,
                  sequence[Len(sequence) - n + k].lon,
                  IF sequence[Len(sequence) - n + k].speed = NoValue THEN I(0)
                  ELSE sequence[Len(sequence) - n + k].speed,
                  IF sequence[Len(sequence) - n + k].course = NoValue THEN I(0)
                  ELSE sequence[Len(sequence) - n + k].course>>]
        ELSE [k \in 1..n |->
                <<last_pos.lat, last_pos.lon,
                  IF Absent(last_pos.speed) THEN I(5) ELSE last_pos.speed,
                  IF Absent(last_pos.course) THEN I(0) ELSE last_pos.course>>]

C28_TransformIsSelfReferential ==
    /\ xPc \in {"transformed", "done"} =>
          /\ Len(xOut) = Len(xSample.X)
          /\ \A k \in 1..Len(xOut) : Len(xOut[k]) = 5
          /\ xOut[Len(xOut)][1] = I(0)
          /\ xOut[Len(xOut)][2] = I(0)
    /\ xPc = "done" => xShiftedOut = xOut

\* a track that moves in both coordinates, displaced to another latitude
C28_Witness ==
    /\ xPc = "done"
    /\ xOffset = <<I(-60), I(10)>>
    /\ xOut[1][1] # I(0)
    /\ xOut[1][2] # I(0)
    /\ xNormalizer.stats.lat_std = I(2)
    /\ xOut[1][1] = RDiv(RSub(xSample.X[1][1], xSample.X[2][1]), I(2))
    /\ xShiftedOut = xOut

\* the speed and course carried on the last row of the call's sequence (0
\* where the row has no such column)
CarriedSpeed ==
    LET last == kArgs.sequence[Len(kArgs.sequence)]
    IN  IF Len(last) > 2 THEN last[3] ELSE I(0)

CarriedCourse ==
    LET last == kArgs.sequence[Len(kArgs.sequence)]
    IN  IF Len(last) > 3 THEN last[4] ELSE I(0)

\* the bearing from the row before the last to the last row
BearingOfLastTwo ==
    LET n == Len(kArgs.sequence)
    IN  BaselineBearing(kArgs.sequence[n - 1][1], kArgs.sequence[n - 1][2],
                        kArgs.sequence[n][1], kArgs.sequence[n][2])

DistanceOfLastTwo ==
    LET n == Len(kArgs.sequence)
    IN  BaselineHaversine(kArgs.sequence[n - 1][1], kArgs.sequence[n - 1][2],
                          kArgs.sequence[n][1], kArgs.sequence[n][2])

\* the speed and course handed to predict are the derived ones: a division
\* was made, the speed times the divisor is the great-circle distance of the
\* last two points, and the course is their bearing
DerivedFromLastTwo ==
    /\ kLocals.time_diff # NoValue
    /\ RMul(kLocals.speed, kLocals.time_diff) = DistanceOfLastTwo
    /\ kLocals.course = BearingOfLastTwo

CarriedUnchanged ==
    /\ kLocals.time_diff = NoValue
    /\ kLocals.speed = CarriedSpeed
    /\ kLocals.course = CarriedCourse

ResultIsPredictOfLocals ==
    kResult = DeadReckoningPredict(kModel.uncertainty_factor,
                                   <<kArgs.sequence[Len(kArgs.sequence)][1],
                                     kArgs.sequence[Len(kArgs.sequence)][2]>>,
                                   kLocals.speed, kLocals.course, kArgs.time_gap_hours)

ReferencePosition == <<bResult.sequence[Len(bResult.sequence)].lat,
                       bResult.sequence[Len(bResult.sequence)].lon>>

UnitScale == [velocity_scale |-> I(1)]

VelocityTarget ==
    transform_y(UnitScale,
                [i \in 1..Len(bResult.sequence) |->
                    <<bResult.sequence[i].lat, bResult.sequence[i].lon>>],
                <<bGapEvent.next_position.lat, bGapEvent.next_position.lon>>,
                I(bGapEvent.gap_duration_hours))

\* C30: for a gap event produced by detect and a sequence built from the same
\* history, the final point of the sequence is the gap event's lastSeen
\* position, so the velocity target is the displacement from lastSeen to
\* nextSeen divided by the gap duration.
C30_SequenceEndsAtLastSeen ==
    (dPc = "done" /\ bPc = "done") =>
        /\ ReferencePosition = <<bGapEvent.last_seen.lat, bGapEvent.last_seen.lon>>
        /\ VelocityTarget
             = [k \in 1..2 |->
                   RDiv(RSub(<<bGapEvent.next_seen.lat, bGapEvent.next_seen.lon>>[k],
                             <<bGapEvent.last_seen.lat, bGapEvent.last_seen.lon>>[k]),
                        I(bGapEvent.gap_duration_hours))]

====
